---- MODULE Spec2Model ----
(***************************************************************************)
(* Model of the retrieval-augmented answer pipeline of thesis-pilot-study   *)
(* (src/rag_pipeline.py) and of the collaborators it calls.                 *)
(*                                                                          *)
(* Texts.  A Python str is modelled as a sequence of atoms: every digit,    *)
(* every punctuation or whitespace character is one atom, and every maximal *)
(* run of letters is one atom (a lowercase letter that directly follows a   *)
(* digit, as in "35a", is an atom of its own).  `x in s` on strings is      *)
(* contiguous-subsequence search on atoms.                                  *)
(*                                                                          *)
(* None is <<>> and a present optional value v is <<v>>.                    *)
(***************************************************************************)
EXTENDS Integers, Sequences, FiniteSets, TLC

(***************************************************************************)
(* Bounds of the model.                                                     *)
(***************************************************************************)
MaxTurns == 2          \* get_response calls made on one pipeline

(***************************************************************************)
(* Text helpers.                                                            *)
(***************************************************************************)
None == <<>>
Some(v) == <<v>>

RECURSIVE Sp(_)
\* The words of ws joined by single blanks.
Sp(ws) == IF Len(ws) <= 1 THEN ws ELSE <<Head(ws), " ">> \o Sp(Tail(ws))

\* Python's `needle in hay` for strings.
IsSubstr(needle, hay) ==
    \E i \in 0..(Len(hay) - Len(needle)) : SubSeq(hay, i + 1, i + Len(needle)) = needle

RECURSIVE Pow2(_)
Pow2(n) == IF n <= 0 THEN 1 ELSE 2 * Pow2(n - 1)

Min(a, b) == IF a <= b THEN a ELSE b

(***************************************************************************)
(* Error kinds: the exception classes a model call can raise, by class      *)
(* name.  The four openai classes are the ones rag_pipeline.py imports;     *)
(* InternalServerError stands for the APIStatusError subclasses, ValueError *)
(* for every exception that is no openai error.                             *)
(***************************************************************************)
ErrorKinds == {"RateLimitError", "APIError", "APITimeoutError", "APIConnectionError",
               "InternalServerError", "ValueError"}

\* type(e).__name__ split at its capitalised parts, so that `err in name` is
\* subsequence search ('Timeout' in 'APITimeoutError', 'APIError' not in it).
TypeName(kind) ==
    CASE kind = "RateLimitError"      -> <<"Rate", "Limit", "Error">>
      [] kind = "APIError"            -> <<"API", "Error">>
      [] kind = "APITimeoutError"     -> <<"API", "Timeout", "Error">>
      [] kind = "APIConnectionError"  -> <<"API", "Connection", "Error">>
      [] kind = "InternalServerError" -> <<"Internal", "Server", "Error">>
      [] kind = "Timeout"             -> <<"Timeout">>
      [] OTHER                        -> <<"Value", "Error">>

\* The classes an exception of this kind is an instance of (openai's hierarchy:
\* RateLimitError and InternalServerError derive from APIStatusError, a subclass
\* of APIError; APITimeoutError derives from APIConnectionError, a subclass of
\* APIError).
Bases(kind) ==
    CASE kind = "RateLimitError"      -> {"RateLimitError", "APIStatusError", "APIError"}
      [] kind = "APIError"            -> {"APIError"}
      [] kind = "APITimeoutError"     -> {"APITimeoutError", "APIConnectionError", "APIError"}
      [] kind = "APIConnectionError"  -> {"APIConnectionError", "APIError"}
      [] kind = "InternalServerError" -> {"InternalServerError", "APIStatusError", "APIError"}
      [] OTHER                        -> {kind}

(***************************************************************************)
(* _call_llm_with_retry (rag_pipeline.py 186-248).                          *)
(***************************************************************************)
MaxAttempts == 5       \* stop_after_attempt(5) / max_retries = 5
BackoffCap == 60       \* wait_random_exponential(max=60) / min(2 ** attempt, 60)

\* retry_if_exception_type((RateLimitError, APIError, APITimeoutError, APIConnectionError))
tenacity_retry_types == {"RateLimitError", "APIError", "APITimeoutError", "APIConnectionError"}

\* retryable_errors of the manual loop
retryable_errors == {"RateLimitError", "APIError", "Timeout", "APIConnectionError"}

\* is_retryable, had the wrapper retried after every exception.
is_retryable_any(v, kind) == TRUE

\* Whether a failure of this kind is one the wrapper retries.
is_retryable(v, kind) ==
    IF v = "tenacity"
    THEN Bases(kind) \cap tenacity_retry_types # {}
    ELSE \E err \in retryable_errors : IsSubstr(TypeName(err), TypeName(kind))

\* What the wrapper does after the n-th attempt (n >= 1) failed with `kind`.
after_failure(v, n, kind) ==
    IF v = "tenacity"
    THEN IF is_retryable(v, kind) /\ n < MaxAttempts THEN "retry" ELSE "raise"
    ELSE IF (n - 1) < MaxAttempts - 1 /\ is_retryable(v, kind) THEN "retry" ELSE "raise"

\* wait_times, had the backoff started at 2 seconds (multiplier=2, 2 ** (attempt + 1)).
wait_times_doubled(v, n) ==
    IF v = "tenacity"
    THEN 0..Min(2 * Pow2(n - 1), BackoffCap)
    ELSE {Min(2 * Pow2(n - 1), BackoffCap)}

\* The sleeps possible after the n-th failed attempt, in whole seconds.
\* tenacity: uniform over [0, min(2^(n-1), max)]; manual: min(2 ** attempt, 60)
\* with attempt = n - 1.
wait_times(v, n) ==
    IF v = "tenacity"
    THEN 0..Min(Pow2(n - 1), BackoffCap)
    ELSE {Min(Pow2(n - 1), BackoffCap)}

\* One invocation of the wrapped callable inside the wrapper.  `c` is the state
\* of the wrapper call, `out` the outcome of the invocation ("ok", "hang" or an
\* error kind), `d` the sleep drawn for a retry.
FreshCall == [state |-> "running", attempts |-> 0, delays |-> <<>>, err |-> "none"]
IdleCall  == [state |-> "idle", attempts |-> 0, delays |-> <<>>, err |-> "none"]

_call_llm_with_retry(v, c, out, d) ==
    LET n == c.attempts + 1 IN
    IF out = "ok" THEN [c EXCEPT !.attempts = n, !.state = "returned", !.err = "none"]
    ELSE IF out = "hang" THEN [c EXCEPT !.attempts = n, !.state = "hung"]
    ELSE IF after_failure(v, n, out) = "retry"
         THEN [c EXCEPT !.attempts = n, !.delays = Append(@, d), !.err = out]
         ELSE [c EXCEPT !.attempts = n, !.state = "raised", !.err = out]

(***************************************************************************)
(* Character classes and regular-expression pieces on atom sequences.       *)
(***************************************************************************)
Digits == {"0", "1", "2", "3", "4", "5", "6", "7", "8", "9"}
Whitespace == {" ", "\n", "\t"}

\* \w: an atom made of letters or digits.
IsWordAtom(a) == a \notin (Whitespace \cup {"§", "(", ")", ".", ",", ":", ";", "?", "!", "-", "€", "[", "]"})

\* str.lower() of one atom, for the atoms of the model's texts that have an
\* upper-case letter.
LowerAtom(a) ==
    CASE a = "Abgeltung" -> "abgeltung"
      [] a = "Abs" -> "abs"
      [] a = "Absatz" -> "absatz"
      [] a = "Als" -> "als"
      [] a = "Anfrage" -> "anfrage"
      [] a = "Anlagevermögens" -> "anlagevermögens"
      [] a = "Anschaffung" -> "anschaffung"
      [] a = "Anschaffungs" -> "anschaffungs"
      [] a = "Anschaffungskosten" -> "anschaffungskosten"
      [] a = "Aufwendungen" -> "aufwendungen"
      [] a = "Begriffen" -> "begriffen"
      [] a = "Bei" -> "bei"
      [] a = "Beiträge" -> "beiträge"
      [] a = "Betrag" -> "betrag"
      [] a = "Betriebsausgaben" -> "betriebsausgaben"
      [] a = "Bitte" -> "bitte"
      [] a = "Der" -> "der"
      [] a = "Die" -> "die"
      [] a = "EStG" -> "estg"
      [] a = "EXTRAKTION" -> "extraktion"
      [] a = "Ein" -> "ein"
      [] a = "Einkommensteuer" -> "einkommensteuer"
      [] a = "Einkünfte" -> "einkünfte"
      [] a = "Einkünften" -> "einkünften"
      [] a = "Einnahmen" -> "einnahmen"
      [] a = "Erhaltungs" -> "erhaltungs"
      [] a = "Ermittlung" -> "ermittlung"
      [] a = "Es" -> "es"
      [] a = "Euro" -> "euro"
      [] a = "Fehler" -> "fehler"
      [] a = "Frage" -> "frage"
      [] a = "Für" -> "für"
      [] a = "Gesetzestexte" -> "gesetzestexte"
      [] a = "Handwerkerleistungen" -> "handwerkerleistungen"
      [] a = "Haushaltsführung" -> "haushaltsführung"
      [] a = "Herstellungskosten" -> "herstellungskosten"
      [] a = "Höhe" -> "höhe"
      [] a = "Ihre" -> "ihre"
      [] a = "Ihrer" -> "ihrer"
      [] a = "Inanspruchnahme" -> "inanspruchnahme"
      [] a = "Informationen" -> "informationen"
      [] a = "Inland" -> "inland"
      [] a = "Ja" -> "ja"
      [] a = "KEINE" -> "keine"
      [] a = "KI" -> "ki"
      [] a = "Kapitalvermögen" -> "kapitalvermögen"
      [] a = "Laut" -> "laut"
      [] a = "Leistungen" -> "leistungen"
      [] a = "Mehraufwendungen" -> "mehraufwendungen"
      [] a = "Modernisierungsmaßnahmen" -> "modernisierungsmaßnahmen"
      [] a = "Monat" -> "monat"
      [] a = "MÖGLICH" -> "möglich"
      [] a = "Nach" -> "nach"
      [] a = "Nummer" -> "nummer"
      [] a = "Nutzung" -> "nutzung"
      [] a = "Pauschbetrag" -> "pauschbetrag"
      [] a = "Prozent" -> "prozent"
      [] a = "Regelungen" -> "regelungen"
      [] a = "Renovierungs" -> "renovierungs"
      [] a = "Sekunden" -> "sekunden"
      [] a = "Sie" -> "sie"
      [] a = "Sparer" -> "sparer"
      [] a = "Steuer" -> "steuer"
      [] a = "Steuerpflichtigen" -> "steuerpflichtigen"
      [] a = "Text" -> "text"
      [] a = "Unterkunft" -> "unterkunft"
      [] a = "Unterkunftskosten" -> "unterkunftskosten"
      [] a = "Verarbeitung" -> "verarbeitung"
      [] a = "Werbungskosten" -> "werbungskosten"
      [] a = "Wirtschaftsgut" -> "wirtschaftsgut"
      [] a = "Wirtschaftsgütern" -> "wirtschaftsgütern"
      [] a = "Wirtschaftsjahr" -> "wirtschaftsjahr"
      [] a = "Zitat" -> "zitat"
      [] a = "Zu" -> "zu"
      [] a = "Zur" -> "zur"
      [] OTHER -> a

\* str.lower()
Lower(s) == [i \in 1..Len(s) |-> LowerAtom(s[i])]

RECURSIVE SkipWhile(_, _, _)
\* The least j >= i with s[j] outside S, or Len(s) + 1: the end of a greedy X*.
SkipWhile(s, i, S) ==
    IF i > Len(s) \/ s[i] \notin S THEN i ELSE SkipWhile(s, i + 1, S)

RECURSIVE SkipWord(_, _)
\* The same for \w*.
SkipWord(s, i) ==
    IF i > Len(s) \/ ~IsWordAtom(s[i]) THEN i ELSE SkipWord(s, i + 1)

RECURSIVE ToInt(_)
\* int() of a sequence of digit atoms.
ToInt(ds) ==
    IF ds = <<>> THEN 0
    ELSE 10 * ToInt(SubSeq(ds, 1, Len(ds) - 1))
         + (CHOOSE n \in 0..9 : ToString(n) = ds[Len(ds)])

RECURSIVE JoinAtoms(_)
\* The string the atoms spell.
JoinAtoms(s) == IF s = <<>> THEN "" ELSE Head(s) \o JoinAtoms(Tail(s))

\* The end (exclusive) of a match of \d+[a-z]? starting at j, or 0 without one.
NumberEnd(s, j) ==
    LET k == SkipWhile(s, j, Digits) IN
    IF k = j THEN 0
    ELSE IF k <= Len(s) /\ s[k] \in {"a", "b", "c", "d", "e", "f", "g", "h", "i", "j", "k", "l", "m",
                                     "n", "o", "p", "q", "r", "s", "t", "u", "v", "w", "x", "y", "z"} THEN k + 1 ELSE k

\* The match of §\s*(\d+[a-z]?) that starts at atom i: [from, to) of group 1,
\* or <<>> when the pattern does not match at i.
SectionAt(s, i) ==
    IF i > Len(s) \/ s[i] # "§" THEN <<>>
    ELSE LET j == SkipWhile(s, i + 1, Whitespace)
             e == NumberEnd(s, j)
         IN IF e = 0 THEN <<>> ELSE <<j, e>>

RECURSIVE FindAllFrom(_, _)
FindAllFrom(s, i) ==
    IF i > Len(s) THEN <<>>
    ELSE LET m == SectionAt(s, i) IN
         IF m = <<>> THEN FindAllFrom(s, i + 1)
         ELSE <<SubSeq(s, m[1], m[2] - 1)>> \o FindAllFrom(s, m[2])

\* re.findall(r'§\s*(\d+[a-z]?)', s)
FindSectionNumbers(s) == FindAllFrom(s, 1)

\* set(re.findall(r'\b\w{5,}\b', s.lower())): the maximal runs of word atoms
\* that spell at least five characters.
Keywords(s) ==
    LET l == Lower(s)
        starts == {i \in 1..Len(l) : IsWordAtom(l[i]) /\ (i = 1 \/ ~IsWordAtom(l[i - 1]))}
        run(i) == JoinAtoms(SubSeq(l, i, SkipWord(l, i) - 1))
    IN {run(i) : i \in {j \in starts : Len(run(j)) >= 5}}

(***************************************************************************)
(* The texts of the program and the sample texts of the model.              *)
(***************************************************************************)
\* rag_pipeline.py 338
MsgChainFailed ==
    <<"Die", " ", "Anfrage", " ", "konnte", " ", "nicht", " ", "verarbeitet", " ", "werden", ".",
      " ", "Bitte", " ", "versuchen", " ", "Sie", " ", "es", " ", "erneut", ".">>

\* rag_pipeline.py 356
MsgTimeout ==
    <<"Die", " ", "Verarbeitung", " ", "hat", " ", "zu", " ", "lange", " ", "gedauert", ".", " ",
      "Bitte", " ", "versuchen", " ", "Sie", " ", "eine", " ", "kürzere", " ", "Frage", ".">>

\* rag_pipeline.py 369
MsgBusy ==
    <<"Die", " ", "KI", " ", "ist", " ", "momentan", " ", "überlastet", ".", " ", "Bitte", " ",
      "versuchen", " ", "Sie", " ", "es", " ", "in", " ", "ein", " ", "paar", " ", "Sekunden",
      " ", "erneut", ".">>

\* rag_pipeline.py 379
MsgRephrase ==
    <<"Ein", " ", "technischer", " ", "Fehler", " ", "ist", " ", "aufgetreten", ".", " ",
      "Bitte", " ", "formulieren", " ", "Sie", " ", "Ihre", " ", "Frage", " ", "anders", ".">>

\* rag_pipeline.py 414, 424
NoAnswerText ==
    <<"Bitte", " ", "stellen", " ", "Sie", " ", "erneut", " ", "die", " ", "Frage", ".">>

\* the refusal sentence of content.UNIVERSAL_PROMPT, content.py 339-340
PromptRefusal ==
    <<"Die", " ", "bereitgestellten", " ", "Gesetzestexte", " ", "enthalten", " ", "keine", " ",
      "Informationen", " ", "zu", " ", "dieser", " ", "Frage", ".", " ", "Bitte", " ",
      "formulieren", " ", "Sie", " ", "Ihre", " ", "Anfrage", " ", "mit", " ", "spezifischeren",
      " ", "Begriffen", " ", "erneut", ".">>

\* rag_pipeline.py 498, 506
GenericQuoteMessage ==
    <<"Es", " ", "passt", " ", "kein", " ", "Zitat", " ", "zu", " ", "Ihrer", " ", "Anfrage",
      ".", " ", "Bitte", " ", "versuchen", " ", "Sie", " ", "es", " ", "mit", " ",
      "spezifischeren", " ", "Begriffen", " ", "erneut", ".">>

\* content.FALLBACK_QUOTES[2]
FallbackQuote2 ==
    <<"Für", " ", "die", " ", "Inanspruchnahme", " ", "von", " ", "Handwerkerleistungen", " ",
      "für", " ", "Renovierungs", "-", ",", " ", "Erhaltungs", "-", " ", "und", " ",
      "Modernisierungsmaßnahmen", " ", "ermäßigt", " ", "sich", " ", "die", " ", "tarifliche",
      " ", "Einkommensteuer", ",", " ", "[", ".", ".", ".", "]", " ", "um", " ", "2", "0", " ",
      "Prozent", " ", "der", " ", "Aufwendungen", " ", "des", " ", "Steuerpflichtigen", ",", " ",
      "höchstens", " ", "jedoch", " ", "um", " ", "1", "2", "0", "0", " ", "Euro", ".">>

\* a generated answer that cites nothing
AnsNoCitation ==
    <<"Der", " ", "Betrag", " ", "ist", " ", "abziehbar", ".">>

\* a generated answer citing a subsection as a section
AnsCites9 ==
    <<"Nach", " ", "§", "9", " ", "EStG", " ", "ist", " ", "als", " ", "Werbungskosten", " ",
      "ein", " ", "Betrag", " ", "von", " ", "1", "0", "0", "0", " ", "Euro", " ", "abzuziehen",
      ".">>

\* a generated answer with a correct citation
AnsCites6 ==
    <<"Ja", ",", " ", "nach", " ", "§", "6", " ", "Abs", ".", " ", "2", " ", "EStG", " ", "sind",
      " ", "8", "0", "0", " ", "Euro", " ", "sofort", " ", "absetzbar", ".">>

\* legal_reference of estg_20.txt
Ref20 ==
    <<"EStG", " ", "§", "2", "0">>

\* legal_reference_full of estg_20.txt
Ref20Full ==
    <<"EStG", " ", "§", "2", "0", " ", "Abs", ".", " ", "1">>

\* legal_reference of estg_9.txt
Ref9 ==
    <<"EStG", " ", "§", "9">>

\* legal_reference_full of estg_9.txt
Ref9Full ==
    <<"EStG", " ", "§", "9", " ", "Abs", ".", " ", "1">>

\* a generated answer with two citations, the first without the law's name
AnsCites9Twice ==
    <<"Laut", " ", "§", "9", " ", "ist", " ", "ein", " ", "Betrag", " ", "von", " ", "1", "0",
      "0", "0", " ", "Euro", " ", "abzuziehen", ",", " ", "siehe", " ", "auch", " ", "§", "9",
      " ", "EStG", ".">>

\* a generated answer citing a list item as a subsection, without the law's name
AnsCites9Abs5NoLaw ==
    <<"Nach", " ", "§", "9", " ", "Abs", ".", " ", "5", " ", "sind", " ", "Mehraufwendungen",
      " ", "wegen", " ", "einer", " ", "doppelten", " ", "Haushaltsführung", " ",
      "Werbungskosten", ".">>

\* a long Tier-1 text that holds a failure phrase
QuoteNotFound ==
    <<"Es", " ", "wurde", " ", "kein", " ", "direktes", " ", "Zitat", " ", "gefunden", ".", " ",
      "Der", " ", "Text", " ", "nennt", " ", "nur", " ", "allgemeine", " ", "Regelungen", ".">>

\* rag_pipeline.py 484
failure_keywords ==
    {<<"KEINE", "_", "EXTRAKTION">>,
     <<"kein", " ", "direktes", " ", "Zitat">>,
     <<"nicht", " ", "gefunden">>,
     <<"Es", " ", "wurde", " ", "kein">>}

\* rag_pipeline.py 297-301
no_answer_phrases ==
    {<<"keine", " ", "informationen">>,
     <<"enthalten", " ", "keine">>,
     <<"bitte", " ", "stellen", " ", "sie">>}

(***************************************************************************)
(* Documents: a retrieved chunk is [page_content, metadata], the metadata   *)
(* as create_index.py writes it (legal_reference always, the full reference *)
(* only when a leading subsection marker was found).                        *)
(***************************************************************************)
Doc(ref, full, text) ==
    [page_content |-> text, metadata |-> [legal_reference |-> ref, legal_reference_full |-> full]]

(***************************************************************************)
(* _smart_document_selection (rag_pipeline.py 509-569).                     *)
(***************************************************************************)
\* overlap >= 3 or overlap_ratio >= 0.2, the ratio being 0 without keywords.
enough_overlap(answer_keywords, doc_keywords) ==
    \/ Cardinality(answer_keywords \cap doc_keywords) >= 3
    \/ /\ answer_keywords # {}
       /\ 5 * Cardinality(answer_keywords \cap doc_keywords) >= Cardinality(answer_keywords)

\* The rule by which `number` resolves `doc`, as the loop body tests it.
selection_rule(answer, number, doc) ==
    IF IsSubstr(number, doc.metadata.legal_reference) THEN "exact"
    ELSE IF /\ IsSubstr(<<"(">> \o number \o <<")">>, doc.page_content)
            /\ enough_overlap(Keywords(answer), Keywords(doc.page_content))
         THEN "absatz"
         ELSE "none"

\* The (number, document, rule) triples that resolve a document.
selection_hits(answer, numbers, retrieved_docs) ==
    {h \in {<<p[1], p[2], selection_rule(answer, numbers[p[1]], retrieved_docs[p[2]])>> :
               p \in (1..Len(numbers)) \X (1..Len(retrieved_docs))} : h[3] # "none"}

\* The first of them in the order of `for number ...: for doc ...:`.
first_hit(hits) ==
    CHOOSE h \in hits : \A g \in hits : h[1] < g[1] \/ (h[1] = g[1] /\ h[2] <= g[2])

\* selected_by, had it put the text of the top-ranked candidate under the
\* reference of the chosen one.
selected_by_merging(retrieved_docs, hit) ==
    [doc |-> [retrieved_docs[hit[2]] EXCEPT !.page_content = retrieved_docs[1].page_content],
     log |-> IF hit[3] = "absatz" THEN Some("absatz_paragraph_confusion_fixed") ELSE None]

selected_by(retrieved_docs, hit) ==
    [doc |-> retrieved_docs[hit[2]],
     log |-> IF hit[3] = "absatz" THEN Some("absatz_paragraph_confusion_fixed") ELSE None]

selection_among(retrieved_docs, numbers, hits) ==
    IF numbers = <<>> THEN [doc |-> retrieved_docs[1], log |-> None]
    ELSE IF hits = {}
         THEN [doc |-> retrieved_docs[1], log |-> Some("unclear_document_selection")]
         ELSE selected_by(retrieved_docs, first_hit(hits))

selection_for(answer, retrieved_docs, numbers) ==
    selection_among(retrieved_docs, numbers, selection_hits(answer, numbers, retrieved_docs))

\* Returns the chosen document and the diagnostic passed to _log_rag_error, if any.
_smart_document_selection(answer, retrieved_docs) ==
    selection_for(answer, retrieved_docs, FindSectionNumbers(answer))

(***************************************************************************)
(* _fix_hallucinated_citation (rag_pipeline.py 627-734).                    *)
(***************************************************************************)
\* The least element of a non-empty set of positions.
Least(S) == CHOOSE i \in S : \A j \in S : i <= j

\* End (exclusive) of \s+ at i, or 0 when no whitespace stands at i.
Ws1(s, i) == IF i <= Len(s) /\ s[i] \in Whitespace THEN SkipWhile(s, i, Whitespace) ELSE 0

\* End (exclusive) of \d+ at i, or 0.
Digits1(s, i) == IF i <= Len(s) /\ s[i] \in Digits THEN SkipWhile(s, i, Digits) ELSE 0

\* s has the atoms `lit` at i.
LitAt(s, i, lit) == i + Len(lit) - 1 <= Len(s) /\ SubSeq(s, i, i + Len(lit) - 1) = lit

\* Where the digits of \s+ lit \s* (\d+) begin when the group is tried at e, or 0.
KeywordDigits(s, e, lit) ==
    IF Ws1(s, e) # 0 /\ LitAt(s, Ws1(s, e), lit)
    THEN IF Digits1(s, SkipWhile(s, Ws1(s, e) + Len(lit), Whitespace)) # 0
         THEN SkipWhile(s, Ws1(s, e) + Len(lit), Whitespace)
         ELSE 0
    ELSE 0

\* End (exclusive) of the optional group (?:\s+ lit \s* \d+)? tried at e.
OptKeywordNumber(s, e, lit) ==
    IF KeywordDigits(s, e, lit) = 0 THEN e ELSE Digits1(s, KeywordDigits(s, e, lit))

\* End (exclusive) of the optional group (?:\s+ lit)? tried at e.
OptKeyword(s, e, lit) ==
    IF Ws1(s, e) # 0 /\ LitAt(s, Ws1(s, e), lit) THEN Ws1(s, e) + Len(lit) ELSE e

\* End (exclusive) of (?:\s+Abs\.\s*(\d+))?(?:\s+Satz\s*\d+)?(?:\s+Nr\.\s*\d+)?(?:\s+EStG)?
\* tried at e.
CitationEnd(s, e) ==
    OptKeyword(s,
        OptKeywordNumber(s,
            OptKeywordNumber(s,
                OptKeywordNumber(s, e, <<"Abs", ".">>),
                <<"Satz">>),
            <<"Nr", ".">>),
        <<"EStG">>)

\* Group 2 of the pattern, whose group 1 ended at e: the digits after Abs.
CitedAbs(s, e, d) == IF d = 0 THEN None ELSE Some(SubSeq(s, d, Digits1(s, d) - 1))

\* The match of citation_pattern that starts at i, m being [from, to) of its
\* group 1: the whole match as [from, to), cited_para and cited_abs.
CitationFrom(s, i, m) ==
    [from |-> i, to |-> CitationEnd(s, m[2]),
     cited_para |-> SubSeq(s, m[1], m[2] - 1),
     cited_abs |-> CitedAbs(s, m[2], KeywordDigits(s, m[2], <<"Abs", ".">>))]

CitationAt(s, i) == CitationFrom(s, i, SectionAt(s, i))

\* re.search(citation_pattern, s): the leftmost match, or <<>>.
CitationSearch(s) ==
    IF \A i \in 1..Len(s) : SectionAt(s, i) = <<>> THEN <<>>
    ELSE Some(CitationAt(s, Least({i \in 1..Len(s) : SectionAt(s, i) # <<>>})))

\* re.search(r'§(\d+[a-z]?)', ref).group(1), or <<>>: no blank after the sign.
CorrectParaAt(ref, i) == Some(SubSeq(ref, i + 1, NumberEnd(ref, i + 1) - 1))

CorrectPara(ref) ==
    IF \A i \in 1..Len(ref) : ref[i] # "§" \/ NumberEnd(ref, i + 1) = 0 THEN <<>>
    ELSE CorrectParaAt(ref, Least({i \in 1..Len(ref) : ref[i] = "§" /\ NumberEnd(ref, i + 1) # 0}))

\* s with the atoms [i, i + n) replaced by new.
Splice(s, i, n, new) == SubSeq(s, 1, i - 1) \o new \o SubSeq(s, i + n, Len(s))

\* A replacement of the last occurrence of old instead of the first.
ReplaceLastOccurrence(s, old, new) ==
    IF old = <<>> \/ ~IsSubstr(old, s) THEN s
    ELSE Splice(s, CHOOSE i \in 1..(Len(s) - Len(old) + 1) :
                       /\ LitAt(s, i, old)
                       /\ \A j \in 1..(Len(s) - Len(old) + 1) : LitAt(s, j, old) => j <= i,
                Len(old), new)

\* s.replace(old, new, 1)
ReplaceFirst(s, old, new) ==
    IF old = <<>> \/ ~IsSubstr(old, s) THEN s
    ELSE Splice(s, Least({i \in 1..(Len(s) - Len(old) + 1) : LitAt(s, i, old)}), Len(old), new)

\* (.*?)(?=\n\(2\)|\Z) from b on: up to the first "\n(2)" or the end.
UpToAbsatz2(text, b) ==
    IF \E p \in b..Len(text) : LitAt(text, p, <<"\n", "(", "2", ")">>)
    THEN SubSeq(text, b, Least({p \in b..Len(text) : LitAt(text, p, <<"\n", "(", "2", ")">>)}) - 1)
    ELSE SubSeq(text, b, Len(text))

Absatz1From(text, i) == Some(UpToAbsatz2(text, Ws1(text, i + 3)))

\* Group 1 of re.search(r'\(1\)\s+(.*?)(?=\n\(2\)|\Z)', text, re.DOTALL), or <<>>.
Absatz1Text(text) ==
    IF \A i \in 1..Len(text) : ~(LitAt(text, i, <<"(", "1", ")">>) /\ Ws1(text, i + 3) # 0)
    THEN <<>>
    ELSE Absatz1From(text, Least({i \in 1..Len(text) :
                                    LitAt(text, i, <<"(", "1", ")">>) /\ Ws1(text, i + 3) # 0}))

\* re.search(rf'^\s*{cited_abs}\.\s+', text, re.MULTILINE)
HasNummerItem(text, cited_abs) ==
    \E i \in 1..Len(text) :
        /\ i = 1 \/ text[i - 1] = "\n"
        /\ LitAt(text, SkipWhile(text, i, Whitespace), cited_abs \o <<".">>)
        /\ Ws1(text, SkipWhile(text, i, Whitespace) + Len(cited_abs) + 1) # 0

\* The test of CASE 2: cited_abs is a list item of subsection 1.
nummer_in(absatz_1_match, cited_abs) ==
    absatz_1_match # <<>> /\ HasNummerItem(absatz_1_match[1], cited_abs)

\* The cases without the threshold of 5 on the cited subsection number.
fix_cases_any_absatz(answer_text, source_document_text, correct_para, original, cited_para, cited_abs) ==
    IF cited_para # correct_para
    THEN IF IsSubstr(<<"(">> \o cited_para \o <<")">>, source_document_text)
         THEN [answer |-> ReplaceFirst(answer_text, original,
                              <<"§">> \o correct_para \o <<" ", "Abs", ".", " ">>
                                      \o cited_para \o <<" ", "EStG">>),
               log |-> Some("citation_fixed_absatz_confusion")]
         ELSE [answer |-> answer_text, log |-> Some("citation_unclear_no_fix_applied")]
    ELSE IF /\ cited_abs # None
            /\ nummer_in(Absatz1Text(source_document_text), cited_abs[1])
         THEN [answer |-> ReplaceFirst(answer_text, original,
                              <<"§">> \o correct_para
                                      \o <<" ", "Abs", ".", " ", "1", " ", "Nr", ".", " ">>
                                      \o cited_abs[1] \o <<" ", "EStG">>),
               log |-> Some("citation_fixed_nummer_as_absatz")]
         ELSE [answer |-> answer_text, log |-> None]

\* The three cases, for a parsed citation.
fix_cases(answer_text, source_document_text, correct_para, original, cited_para, cited_abs) ==
    IF cited_para # correct_para
    THEN IF IsSubstr(<<"(">> \o cited_para \o <<")">>, source_document_text)
         THEN [answer |-> ReplaceFirst(answer_text, original,
                              <<"§">> \o correct_para \o <<" ", "Abs", ".", " ">>
                                      \o cited_para \o <<" ", "EStG">>),
               log |-> Some("citation_fixed_absatz_confusion")]
         ELSE [answer |-> answer_text, log |-> Some("citation_unclear_no_fix_applied")]
    ELSE IF /\ cited_abs # None
            /\ ToInt(cited_abs[1]) >= 5
            /\ nummer_in(Absatz1Text(source_document_text), cited_abs[1])
         THEN [answer |-> ReplaceFirst(answer_text, original,
                              <<"§">> \o correct_para
                                      \o <<" ", "Abs", ".", " ", "1", " ", "Nr", ".", " ">>
                                      \o cited_abs[1] \o <<" ", "EStG">>),
               log |-> Some("citation_fixed_nummer_as_absatz")]
         ELSE [answer |-> answer_text, log |-> None]

\* A repair that adds the document's section to an answer that cites nothing.
fix_parsed_citing(answer_text, source_document_text, correct_match, match) ==
    IF correct_match = <<>> THEN [answer |-> answer_text, log |-> None]
    ELSE IF match = <<>>
         THEN [answer |-> answer_text \o <<" ", "(", "§">> \o correct_match[1] \o <<")">>,
               log |-> None]
         ELSE fix_cases(answer_text, source_document_text, correct_match[1],
                        SubSeq(answer_text, match[1].from, match[1].to - 1),
                        match[1].cited_para, match[1].cited_abs)

fix_parsed(answer_text, source_document_text, correct_match, match) ==
    IF correct_match = <<>> \/ match = <<>> THEN [answer |-> answer_text, log |-> None]
    ELSE fix_cases(answer_text, source_document_text, correct_match[1],
                   SubSeq(answer_text, match[1].from, match[1].to - 1),
                   match[1].cited_para, match[1].cited_abs)

\* Returns the answer text and the diagnostic passed to _log_rag_error, if any.
_fix_hallucinated_citation(answer_text, correct_legal_ref, source_document_text) ==
    fix_parsed(answer_text, source_document_text,
               CorrectPara(correct_legal_ref), CitationSearch(answer_text))

(***************************************************************************)
(* Responses of get_response.                                               *)
(***************************************************************************)
\* _create_error_response, had it put the message into "quote" as well.
_create_error_response_quoting(message, recoverable) ==
    [answer |-> message, context |-> <<>>, quote |-> Some(message), legal_reference |-> None,
     no_answer |-> TRUE, error |-> TRUE, recoverable |-> recoverable]

\* _create_error_response (rag_pipeline.py 605-624)
_create_error_response(message, recoverable) ==
    [answer |-> message, context |-> <<>>, quote |-> None, legal_reference |-> None,
     no_answer |-> TRUE, error |-> TRUE, recoverable |-> recoverable]

\* no_answer_response, had steps 5 and 6 returned _create_error_response instead.
no_answer_response_as_error ==
    [answer |-> NoAnswerText, context |-> <<>>, quote |-> None, legal_reference |-> None,
     no_answer |-> TRUE, error |-> TRUE, recoverable |-> TRUE]

\* The dictionary of steps 5 and 6 (rag_pipeline.py 412-429): it has no "error" key.
no_answer_response ==
    [answer |-> NoAnswerText, context |-> <<>>, quote |-> None, legal_reference |-> None,
     no_answer |-> TRUE]

\* The dictionary of step 11 (rag_pipeline.py 451-459)
complete_response(answer, top_doc, supporting_quote, legal_ref, legal_ref_full) ==
    [answer |-> answer, context |-> <<top_doc>>, quote |-> supporting_quote,
     legal_reference |-> Some(legal_ref), legal_reference_full |-> Some(legal_ref_full),
     no_answer |-> FALSE, error |-> FALSE]

\* dict.get(key, default)
Get(d, key, default) == IF key \in DOMAIN d THEN d[key] ELSE default

(***************************************************************************)
(* Logging.  `l` holds what one turn has logged: the error types passed to  *)
(* _log_rag_error, the records that reached logs/rag_errors.log and the     *)
(* event types passed to log_interaction.  A logging operator returns the   *)
(* new logs and whether an exception left it.                               *)
(***************************************************************************)
EmptyLogs == [rag_calls |-> <<>>, rag_file |-> <<>>, interactions |-> <<>>]

\* log_interaction (utils.py 525-612) as this pipeline calls it: every failure
\* inside is caught, nothing is raised.
log_interaction(l, event_type) ==
    [logs |-> [l EXCEPT !.interactions = Append(@, event_type)], raised |-> FALSE]

\* _log_rag_error, had the append to logs/rag_errors.log stood outside the try block.
_log_rag_error_unguarded(l, has_session, error_type, io_ok) ==
    [logs |-> IF has_session THEN log_interaction(l, "rag_error_" \o error_type).logs ELSE l,
     raised |-> ~io_ok]

\* _log_rag_error (rag_pipeline.py 572-602): io_ok is whether the append to
\* logs/rag_errors.log succeeds; a failure is caught inside.
_log_rag_error(l, has_session, error_type, io_ok) ==
    LET l1 == IF has_session
              THEN log_interaction(l, "rag_error_" \o error_type).logs
              ELSE l
        l2 == [l1 EXCEPT !.rag_calls = Append(@, error_type)]
    IN [logs |-> IF io_ok THEN [l2 EXCEPT !.rag_file = Append(@, error_type)] ELSE l2,
        raised |-> FALSE]

\* _log_quote_extraction_error (rag_pipeline.py 772-783)
_log_quote_extraction_error(l, has_session, tier_used) ==
    IF has_session
    THEN [logs |-> log_interaction(l, "quote_fallback_" \o tier_used).logs, raised |-> FALSE]
    ELSE [logs |-> l, raised |-> FALSE]

(***************************************************************************)
(* _extract_quote_with_error_handling (rag_pipeline.py 462-506).            *)
(***************************************************************************)
\* content.FALLBACK_QUOTES (content.py 435-443)
FALLBACK_QUOTES ==
    1 :> <<"Die", " ", "Anschaffungs", "-", " ", "oder", " ", "Herstellungskosten", " ", "[", ".",
          ".", ".", "]", " ", "von", " ", "abnutzbaren", " ", "beweglichen", " ",
          "Wirtschaftsgütern", " ", "des", " ", "Anlagevermögens", ",", " ", "die", " ", "einer",
          " ", "selbständigen", " ", "Nutzung", " ", "fähig", " ", "sind", ",", " ", "können", " ",
          "im", " ", "Wirtschaftsjahr", " ", "der", " ", "Anschaffung", " ", "[", ".", ".", ".", "]",
          " ", "in", " ", "voller", " ", "Höhe", " ", "als", " ", "Betriebsausgaben", " ",
          "abgezogen", " ", "werden", ",", " ", "wenn", " ", "die", " ", "Anschaffungs", "-", " ",
          "oder", " ", "Herstellungskosten", " ", "[", ".", ".", ".", "]", " ", "für", " ", "das",
          " ", "einzelne", " ", "Wirtschaftsgut", " ", "8", "0", "0", " ", "Euro", " ", "nicht", " ",
          "übersteigen">> @@ 2 :> FallbackQuote2 @@ 3 :> <<"Bei", " ", "der", " ", "Ermittlung", " ", "der", " ", "Einkünfte", " ", "aus", " ",
                                                          "Kapitalvermögen", " ", "ist", " ", "als", " ", "Werbungskosten", " ", "ein", " ",
                                                          "Betrag", " ", "von", " ", "1", "0", "0", "0", " ", "Euro", " ", "abzuziehen", " ", "(",
                                                          "Sparer", "-", "Pauschbetrag", ")", ";">> @@ 4 :> <<"Als", " ", "Unterkunftskosten", " ", "für", " ", "eine", " ", "doppelte", " ",
                                                                                                             "Haushaltsführung", " ", "können", " ", "im", " ", "Inland", " ", "die", " ",
                                                                                                             "tatsächlichen", " ", "Aufwendungen", " ", "für", " ", "die", " ", "Nutzung", " ", "der",
                                                                                                             " ", "Unterkunft", " ", "angesetzt", " ", "werden", ",", " ", "höchstens", " ", "1", " ",
                                                                                                             "0", "0", "0", " ", "Euro", " ", "im", " ", "Monat">>

RECURSIVE LStrip(_)
LStrip(s) == IF s # <<>> /\ Head(s) \in Whitespace THEN LStrip(Tail(s)) ELSE s

RECURSIVE RStrip(_)
RStrip(s) == IF s # <<>> /\ s[Len(s)] \in Whitespace THEN RStrip(SubSeq(s, 1, Len(s) - 1)) ELSE s

\* str.strip()
Strip(s) == RStrip(LStrip(s))

\* len() of a str
CharLen(s) == Len(JoinAtoms(s))

MinQuoteLen == 50      \* len(extracted_quote) >= 50

\* `task_number and task_number in content.FALLBACK_QUOTES`
has_fallback(task_number) ==
    task_number # None /\ task_number[1] # 0 /\ task_number[1] \in DOMAIN FALLBACK_QUOTES

\* _extract_quote_with_error_handling, had it returned the Tier-1 text without
\* validating it.
_extract_quote_unvalidated(l, has_session, task_number, tier1) ==
    IF tier1.raised = "none"
    THEN [quote |-> Strip(tier1.content), logs |-> l, raised |-> FALSE]
    ELSE [quote |-> IF has_fallback(task_number)
                    THEN FALLBACK_QUOTES[task_number[1]]
                    ELSE GenericQuoteMessage,
          logs |-> l, raised |-> FALSE]

\* _extract_quote_with_error_handling, had it accepted a Tier-1 text of any
\* length that holds no failure phrase.
_extract_quote_any_length(l, has_session, task_number, tier1) ==
    IF /\ tier1.raised = "none"
       /\ \A kw \in failure_keywords : ~IsSubstr(Lower(kw), Lower(Strip(tier1.content)))
       /\ Strip(tier1.content) # <<>>
    THEN [quote |-> Strip(tier1.content), logs |-> l, raised |-> FALSE]
    ELSE [quote |-> IF has_fallback(task_number)
                    THEN FALLBACK_QUOTES[task_number[1]]
                    ELSE GenericQuoteMessage,
          logs |-> l, raised |-> FALSE]

\* tier1 is the outcome of the Tier-1 model call behind _call_llm_with_retry:
\* [raised |-> "none", content |-> text] or [raised |-> error kind, ...].
_extract_quote_with_error_handling(l, has_session, task_number, tier1) ==
    IF tier1.raised = "none"
    THEN LET extracted_quote == Strip(tier1.content)
             has_failure == \E kw \in failure_keywords :
                               IsSubstr(Lower(kw), Lower(extracted_quote))
         IN IF CharLen(extracted_quote) >= MinQuoteLen /\ ~has_failure
            THEN [quote |-> extracted_quote, logs |-> l, raised |-> FALSE]
            ELSE LET lg == _log_quote_extraction_error(l, has_session, "hardcoded")
                 IN [quote |-> IF has_fallback(task_number)
                               THEN FALLBACK_QUOTES[task_number[1]]
                               ELSE GenericQuoteMessage,
                     logs |-> lg.logs, raised |-> FALSE]
    ELSE IF has_fallback(task_number)
         THEN LET lg == _log_quote_extraction_error(l, has_session,
                            "exception_fallback_" \o tier1.raised)
              IN [quote |-> FALLBACK_QUOTES[task_number[1]], logs |-> lg.logs, raised |-> FALSE]
         ELSE [quote |-> GenericQuoteMessage, logs |-> l, raised |-> FALSE]

(***************************************************************************)
(* get_response (rag_pipeline.py 278-459): the handlers of its step 3.      *)
(***************************************************************************)
\* The names tested by `error_type in [...]` (rag_pipeline.py 366)
recoverable_error_types == {"RateLimitError", "APIConnectionError", "Timeout"}

\* on_invocation_failed, had it left recoverable at the default of
\* _create_error_response.
on_invocation_failed_default(l, has_session, kind, io_ok) ==
    [response |-> _create_error_response(MsgRephrase, TRUE),
     logs |-> _log_rag_error(l, has_session, "rag_invocation_failed", io_ok).logs,
     raised |-> FALSE]

\* except Exception (rag_pipeline.py 360-381): the worker raised `kind`.
on_invocation_failed(l, has_session, kind, io_ok) ==
    LET lg == _log_rag_error(l, has_session, "rag_invocation_failed", io_ok)
        recoverable == kind \in recoverable_error_types
        lg2 == IF recoverable /\ has_session
               THEN log_interaction(lg.logs, "api_overload_error")
               ELSE lg
    IN [response |-> _create_error_response(IF recoverable THEN MsgBusy ELSE MsgRephrase,
                                            recoverable),
        logs |-> lg2.logs, raised |-> lg.raised \/ lg2.raised]

\* on_timeout, had it marked the timeout as not recoverable.
on_timeout_unrecoverable(l, has_session, io_ok) ==
    [response |-> _create_error_response(MsgTimeout, FALSE),
     logs |-> _log_rag_error(l, has_session, "timeout", io_ok).logs,
     raised |-> FALSE]

\* except FutureTimeoutError (rag_pipeline.py 352-358)
on_timeout(l, has_session, io_ok) ==
    LET lg == _log_rag_error(l, has_session, "timeout", io_ok)
    IN [response |-> _create_error_response(MsgTimeout, TRUE),
        logs |-> lg.logs, raised |-> lg.raised]

\* The except branch of step 2, had it returned recoverable=False.
on_chain_creation_failed_unrecoverable(l, has_session, io_ok) ==
    LET lg == _log_rag_error(l, has_session, "chain_creation_failed", io_ok)
    IN [response |-> _create_error_response(MsgChainFailed, FALSE),
        logs |-> lg.logs, raised |-> lg.raised]

\* except Exception of step 2 (rag_pipeline.py 335-340)
on_chain_creation_failed(l, has_session, io_ok) ==
    LET lg == _log_rag_error(l, has_session, "chain_creation_failed", io_ok)
    IN [response |-> _create_error_response(MsgChainFailed, TRUE),
        logs |-> lg.logs, raised |-> lg.raised]

\* A diagnostic of steps 7 and 9 is passed to _log_rag_error.
log_diagnostic(lg, has_session, diagnostic, io_ok) ==
    IF lg.raised \/ diagnostic = None THEN lg
    ELSE _log_rag_error(lg.logs, has_session, diagnostic[1], io_ok)

\* Step 9 on the selected document.
repair_for(lg, has_session, answer, top_doc, fix, io_ok) ==
    [no_answer |-> FALSE, answer |-> fix.answer, top_doc |-> top_doc,
     logs |-> log_diagnostic(lg, has_session, fix.log, io_ok).logs,
     raised |-> log_diagnostic(lg, has_session, fix.log, io_ok).raised]

\* Steps 7-9, sel being the outcome of step 7.
repair_selected(l, has_session, answer, sel, io1, io2) ==
    repair_for(log_diagnostic([logs |-> l, raised |-> FALSE], has_session, sel.log, io1),
               has_session, answer, sel.doc,
               _fix_hallucinated_citation(answer, sel.doc.metadata.legal_reference,
                                          sel.doc.page_content),
               io2)

\* Steps 4 to 9 (rag_pipeline.py 384-440) on the worker's result: either the
\* no-answer response, or the selected document and the repaired answer.
select_and_repair(l, has_session, rag_response, io1, io2) ==
    IF \/ IsSubstr(<<"Bitte", " ", "stellen", " ", "Sie", " ", "erneut", " ", "die", " ", "Frage">>, rag_response.answer)
       \/ rag_response.context = <<>>
    THEN [no_answer |-> TRUE, logs |-> l, raised |-> FALSE]
    ELSE repair_selected(l, has_session, rag_response.answer,
                         _smart_document_selection(rag_response.answer, rag_response.context),
                         io1, io2)

\* Step 11 for the selected document.
response_for(answer, top_doc, supporting_quote) ==
    LET legal_ref == top_doc.metadata.legal_reference
        full == top_doc.metadata.legal_reference_full
    IN complete_response(answer, top_doc, supporting_quote, legal_ref,
                         IF full = None THEN legal_ref ELSE full[1])

(***************************************************************************)
(* Inputs of the model.                                                     *)
(***************************************************************************)
Doc20 == Doc(Ref20, Some(Ref20Full), <<"(", "9", ")", " ", "Bei", " ", "der", " ", "Ermittlung", " ", "der", " ", "Einkünfte",
                                      " ", "aus", " ", "Kapitalvermögen", " ", "ist", " ", "als", " ", "Werbungskosten", " ",
                                      "ein", " ", "Betrag", " ", "von", " ", "1", "0", "0", "0", " ", "Euro", " ", "abzuziehen",
                                      " ", "(", "Sparer", "-", "Pauschbetrag", ")", ";">>)
Doc6  == Doc(<<"EStG", " ", "§", "6">>, Some(<<"EStG", " ", "§", "6", " ", "Abs", ".", " ", "1">>), <<"(", "2", ")", " ", "Die", " ", "Anschaffungskosten", " ", "können", " ", "abgezogen", " ",
                                    "werden", ",", " ", "wenn", " ", "sie", " ", "für", " ", "das", " ", "einzelne", " ",
                                    "Wirtschaftsgut", " ", "8", "0", "0", " ", "Euro", " ", "nicht", " ", "übersteigen", ".">>)
Doc9  == Doc(Ref9, Some(Ref9Full), <<"(", "1", ")", " ", "Werbungskosten", " ", "sind", " ", "auch", "\n", "5", ".", " ",
                                    "notwendige", " ", "Mehraufwendungen", " ", "wegen", " ", "einer", " ", "doppelten", " ",
                                    "Haushaltsführung", "\n", "(", "2", ")", " ", "Zur", " ", "Abgeltung">>)
Doc20Long == Doc(Ref20, Some(Ref20Full), <<"(", "1", ")", " ", "Zu", " ", "den", " ", "Einkünften", " ", "aus", " ",
                                          "Kapitalvermögen", " ", "gehören", "\n", "9", ".", " ", "Einnahmen", " ", "aus", " ",
                                          "Leistungen", "\n", "(", "9", ")", " ", "Bei", " ", "der", " ", "Ermittlung", " ", "der",
                                          " ", "Einkünfte", " ", "ist", " ", "als", " ", "Werbungskosten", " ", "ein", " ", "Betrag",
                                          " ", "von", " ", "1", "0", "0", "0", " ", "Euro", " ", "abzuziehen", ".">>)

Groups == {"Augmented", "Minimal"}

\* The inputs of the calls observed alone: answers, and one or two retrieved
\* documents (config.SEARCH_K is 2).
UnitAnswers == {AnsNoCitation, AnsCites9, AnsCites6, <<"Nach", " ", "§", "5", " ", "EStG", " ", "ermäßigt", " ", "sich", " ", "die", " ",
                                                      "Steuer", " ", "um", " ", "1", "2", "0", "0", " ", "Euro", ".">>, AnsCites9Twice, <<"Nach", " ", "§", "9", " ", "Abs", ".", " ", "5", " ", "EStG", " ", "sind", " ",
                                                                                 "Mehraufwendungen", " ", "wegen", " ", "einer", " ", "doppelten", " ", "Haushaltsführung",
                                                                                 " ", "Werbungskosten", ".">>,
                AnsCites9Abs5NoLaw, <<"Nach", " ", "§", "9", " ", "Abs", ".", " ", "2", " ", "EStG", " ", "sind", " ",
                                     "Werbungskosten", " ", "abzuziehen", ".">>, <<"Nach", " ", "§", "2", "0", " ", "Abs", ".", " ", "9", " ", "EStG", " ", "ist", " ", "als",
                                                                                  " ", "Werbungskosten", " ", "ein", " ", "Betrag", " ", "von", " ", "1", "0", "0", "0", " ",
                                                                                  "Euro", " ", "abzuziehen", ".">>}
UnitDocs == {Doc6, Doc9, Doc20, (Doc(<<"EStG", " ", "§", "3", "5", "a">>, Some(<<"EStG", " ", "§", "3", "5", "a", " ", "Abs", ".", " ", "3">>), <<"(", "3", ")", " ", "Für", " ", "Handwerkerleistungen", " ", "ermäßigt", " ", "sich", " ",
                                 "die", " ", "tarifliche", " ", "Einkommensteuer", " ", "um", " ", "1", "2", "0", "0", " ",
                                 "Euro", ".">>)), (Doc(<<"EStG", " ", "§", "3", "2", "d">>, None, <<"Als", " ", "Werbungskosten", " ", "ist", " ", "der", " ", "Betrag", " ", "nach", " ",
                                                   "Absatz", " ", "(", "9", ")", " ", "abzuziehen", ".">>)), Doc20Long, (Doc(Ref9, Some(Ref9Full), <<"(", "1", ")", " ", "Werbungskosten", " ", "sind", " ", "Aufwendungen", " ", "nach", " ",
                                                                                                                         "Nummer", " ", "5", ".", " ", "Sie", " ", "sind", " ", "abzuziehen", "\n", "2", ".", " ",
                                                                                                                         "Beiträge", "\n", "(", "2", ")", " ", "Zur", " ", "Abgeltung", "\n", "5", ".", " ",
                                                                                                                         "notwendige", " ", "Mehraufwendungen">>))}

\* __init__ before its first step, and after a construction without failure.
NewBoot ==
    [stage |-> "validate_key", secret |-> None, llm |-> None, index |-> None,
     retriever |-> FALSE, attempts |-> 0, failures |-> 0, delays |-> <<>>,
     critical |-> <<>>, served |-> FALSE]

\* The sessions that write the CSV logs, and the lock files before any write.
Sessions == {"s1", "s2", "s3"}
TaskNumbers == {None} \cup {Some(t) : t \in 0..5}

Tier1Outcomes ==
    {[raised |-> "none", content |-> t] :
        t \in {<<" ", " ", "Bei", " ", "der", " ", "Ermittlung", " ", "der", " ", "Einkünfte", " ", "aus",
                " ", "Kapitalvermögen", " ", "ist", " ", "als", " ", "Werbungskosten", " ", "ein", " ",
                "Betrag", " ", "von", " ", "1", "0", "0", "0", " ", "Euro", " ", "abzuziehen", "\n">>, <<"ein", " ", "Betrag", " ", "von", " ", "1", "0", "0", "0", " ", "Euro">>, <<"KEINE", "_", "EXTRAKTION", "_", "MÖGLICH">>, QuoteNotFound, <<>>}}
    \cup {[raised |-> k, content |-> <<>>] : k \in ErrorKinds}

(***************************************************************************)
(* State.                                                                   *)
(***************************************************************************)
VARIABLES
    variant,     \* which branch of _call_llm_with_retry runs (TENACITY_AVAILABLE)
    hasSession,  \* hasattr(st.session_state, 'session_id')
    pc,          \* where the caller of get_response is
    req,         \* the arguments of the current call: its group
    worker,      \* the _call_llm_with_retry call on the executor's worker thread
    result,      \* what the worker's future holds once it returned
    timedOut,    \* future.result(timeout=45) raised in this call
    partial,     \* the answer and document of steps 7-9 while step 10 runs
    response,    \* what the last get_response call returned
    logs,        \* what the current call has logged
    turn,        \* calls started on this pipeline
    prev,        \* how the call before the current one ended
    rcall,       \* a _call_llm_with_retry call observed alone (RetrySpec)
    quoteIn,     \* step 10 of this call: the task number read, the text passed and what the Tier-1 call yielded
    ucall,       \* a call of document selection or citation repair observed alone (UnitSpec)
    chat,        \* a task's chat history and what step 1 made of it (ChatSpec)
    boot,        \* the construction of the pipeline: __init__ and _load_retriever (LoadSpec)
    locks,       \* the lock files and the sessions inside file_lock_context (LockSpec)
    logw,        \* one call of a logging function of utils.py and the files it writes (LogSpec)
    ss,          \* st.session_state of one participant and what the browser shows (AppSpec)
    disk         \* what lies at config.VECTORSTORE_PATH and how the last rebuild ended (LoadSpec)

vars == <<variant, hasSession, pc, req, worker, result, timedOut, partial, response,
          logs, turn, prev, rcall, quoteIn, ucall, chat, boot, locks, logw, ss, disk>>

pipeVars == <<variant, hasSession, pc, req, worker, result, timedOut, partial, response,
              logs, turn, prev, quoteIn>>

\* The wrapper call without the sleeps it took: the pipeline reads only its
\* outcome.
Forget(c) == [c EXCEPT !.delays = <<>>]

\* How a finished call ended, as the next call's `prev`.
Ended ==
    IF pc = "raised" THEN "raised"
    ELSE IF response = None THEN "none"
    ELSE IF Get(response[1], "error", FALSE)
         THEN IF response[1].recoverable THEN "recoverable_error" ELSE "nonrecoverable_error"
         ELSE IF response[1].no_answer THEN "no_answer" ELSE "answer"

\* The state in which the construction of the pipeline is at b.
InitWith(b) ==
    /\ variant \in {"tenacity", "manual"}
    /\ hasSession \in BOOLEAN
    /\ pc = "idle"
    /\ req = [group |-> "Minimal"]
    /\ worker = IdleCall
    /\ result = None
    /\ timedOut = FALSE
    /\ partial = None
    /\ response = None
    /\ logs = EmptyLogs
    /\ turn = 0
    /\ prev = "none"
    /\ rcall = IdleCall
    /\ quoteIn = None
    /\ ucall = [fn |-> "none"]
    /\ chat = [history |-> <<>>, flags |-> <<>>, sent |-> None]
    /\ boot = b
    /\ locks = [files |-> {}, stale |-> {},
                at |-> [s \in Sessions |-> [pc |-> "out", path |-> None, exit |-> "none",
                slept |-> FALSE]]]
    /\ logw = None
    /\ ss = [current_step |-> "consent", page |-> "consent", task_number |-> 1,
             consent_completed |-> FALSE, instructions_completed |-> FALSE,
             pre_study_completed |-> FALSE, task_completed |-> [i \in 1..4 |-> FALSE],
             postsurvey_completed |-> [i \in 1..3 |-> FALSE], messages |-> <<>>,
             history |-> [i \in 1..4 |-> 0], current_history_key |-> 0,
             task_start_time |-> FALSE, question_count |-> 0, followup_count |-> 0,
             expander_clicks_total |-> 0, modal_clicks_total |-> 0,
             expander_clicks_verification |-> 0, modal_clicks_verification |-> 0,
             expander_then_modal_escalations |-> 0, last_expander_click_time |-> FALSE,
             modal_opened_time |-> FALSE, modal_doc |-> FALSE, modal_was_open |-> FALSE,
             quote_visible |-> FALSE, last_answer_time |-> FALSE,
             answer_reading_recorded |-> FALSE, answer_reading_times |-> 0,
             dialog |-> FALSE, dismissed |-> FALSE, closing |-> "none", incorrect |-> FALSE,
             user_input |-> None, query |-> None]
    /\ disk = [index |-> "old", build |-> "none"]

\* The pipeline as load_rag_pipeline returned it: __init__ ran through.
Init == InitWith([NewBoot EXCEPT !.stage = "constructed",
                  !.secret = Some([read |-> "ok", len |-> 51, sk |-> TRUE]),
                  !.llm = Some(TRUE), !.index = Some(TRUE),
                  !.retriever = TRUE, !.attempts = 1])

\* The end of a get_response call: a returned dictionary, or an exception that
\* leaves get_response.
Finish(r) ==
    /\ logs' = r.logs
    /\ IF r.raised
       THEN pc' = "raised" /\ response' = None
       ELSE pc' = "returned" /\ response' = Some(r.response)

(***************************************************************************)
(* Actions of get_response.                                                 *)
(***************************************************************************)
\* get_response is entered with group g.
Enter(g) ==
    /\ pc \in {"idle", "returned", "raised"}
    /\ turn < MaxTurns
    /\ turn' = turn + 1
    /\ prev' = Ended
    /\ req' = [group |-> g]
    /\ timedOut' = FALSE
    /\ result' = None
    /\ partial' = None
    /\ quoteIn' = None
    /\ UNCHANGED <<variant, hasSession, rcall, ucall, chat, boot, locks, logw, ss, disk>>

\* Step 2 fails: the chain cannot be built, the model is not called.
ChainCreationFails(g, io_ok) ==
    /\ Enter(g)
    /\ worker' = IdleCall
    /\ Finish(on_chain_creation_failed(EmptyLogs, hasSession, io_ok))

\* Steps 1-2 and executor.submit: the worker starts, the caller waits in
\* future.result(timeout=45).
Submit(g) ==
    /\ Enter(g)
    /\ worker' = FreshCall
    /\ pc' = "wait_result"
    /\ response' = None
    /\ logs' = EmptyLogs

\* The worker's invocation of the chain returns.
WorkerReturns(rag_response) ==
    /\ worker.state = "running"
    /\ worker' = Forget(_call_llm_with_retry(variant, worker, "ok", 0))
    /\ result' = Some(rag_response)
    /\ UNCHANGED <<variant, hasSession, pc, req, timedOut, partial, response, logs, turn,
                   prev, rcall, ucall, chat, boot, locks, quoteIn, logw, ss, disk>>

\* The worker's invocation of the chain raises: the wrapper sleeps and goes on,
\* or raises.
WorkerFails(kind, d) ==
    /\ worker.state = "running"
    /\ d \in wait_times(variant, worker.attempts + 1)
    /\ worker' = Forget(_call_llm_with_retry(variant, worker, kind, d))
    /\ UNCHANGED <<variant, hasSession, pc, req, result, timedOut, partial, response, logs,
                   turn, prev, rcall, ucall, chat, boot, locks, quoteIn, logw, ss, disk>>

\* The worker's invocation of the chain never returns.
WorkerHangs ==
    /\ worker.state = "running"
    /\ worker' = Forget(_call_llm_with_retry(variant, worker, "hang", 0))
    /\ UNCHANGED <<variant, hasSession, pc, req, result, timedOut, partial, response, logs,
                   turn, prev, rcall, ucall, chat, boot, locks, quoteIn, logw, ss, disk>>

\* future.result(timeout=45) raises TimeoutError: the worker has not finished.
\* The exception leaves the with block, whose __exit__ is
\* executor.shutdown(wait=True).
Timeout ==
    /\ pc = "wait_result"
    /\ worker.state \in {"running", "hung"}
    /\ timedOut' = TRUE
    /\ pc' = "shutdown_wait"
    /\ UNCHANGED <<variant, hasSession, req, worker, result, partial, response, logs, turn,
                   prev, rcall, ucall, chat, boot, locks, quoteIn, logw, ss, disk>>

\* shutdown(wait=True) returns once the worker thread has ended; then
\* `except FutureTimeoutError` runs.
ExecutorExit(io_ok) ==
    /\ pc = "shutdown_wait"
    /\ worker.state \in {"returned", "raised"}
    /\ Finish(on_timeout(logs, hasSession, io_ok))
    /\ UNCHANGED <<variant, hasSession, req, worker, result, timedOut, partial, turn, prev,
                   rcall, ucall, chat, boot, locks, quoteIn, logw, ss, disk>>

\* future.result re-raises the worker's exception: `except Exception` runs.
FutureRaised(io_ok) ==
    /\ pc = "wait_result"
    /\ worker.state = "raised"
    /\ Finish(on_invocation_failed(logs, hasSession, worker.err, io_ok))
    /\ UNCHANGED <<variant, hasSession, req, worker, result, timedOut, partial, turn, prev,
                   rcall, ucall, chat, boot, locks, quoteIn, logw, ss, disk>>

\* Deliver, had step 10 run for every group.
Deliver_ungated(r) ==
    IF r.raised
    THEN Finish(r) /\ partial' = None
    ELSE IF r.no_answer
    THEN Finish([response |-> no_answer_response, logs |-> r.logs, raised |-> FALSE])
         /\ partial' = None
    ELSE /\ pc' = "quote_call"
         /\ partial' = Some([answer |-> r.answer, top_doc |-> r.top_doc])
         /\ logs' = r.logs
         /\ response' = None

\* What get_response does with the outcome r of steps 4-9.
Deliver(r) ==
    IF r.raised
    THEN Finish(r) /\ partial' = None
    ELSE IF r.no_answer
    THEN Finish([response |-> no_answer_response, logs |-> r.logs, raised |-> FALSE])
         /\ partial' = None
    ELSE IF req.group = "Augmented"
    THEN /\ pc' = "quote_call"
         /\ partial' = Some([answer |-> r.answer, top_doc |-> r.top_doc])
         /\ logs' = r.logs
         /\ response' = None
    ELSE /\ Finish([response |-> response_for(r.answer, r.top_doc, None),
                    logs |-> r.logs, raised |-> FALSE])
         /\ partial' = None

\* future.result returns the chain's response: steps 4-9, and step 11 unless
\* the group is "Augmented".
FutureReturned(io1, io2) ==
    /\ pc = "wait_result"
    /\ worker.state = "returned"
    /\ Deliver(select_and_repair(logs, hasSession, result[1], io1, io2))
    /\ UNCHANGED <<variant, hasSession, req, worker, result, timedOut, turn, prev, rcall, ucall, chat, boot, locks, quoteIn, logw, ss, disk>>

\* Step 11 after step 10 ended with q.
DeliverQuoted(q) ==
    Finish([response |-> response_for(partial[1].answer, partial[1].top_doc, Some(q.quote)),
            logs |-> q.logs, raised |-> q.raised])

\* Step 10 while st.session_state holds task_number: the Tier-1 model call ends
\* with `tier1`, and the response is returned.
ExtractQuote(task_number, tier1) ==
    /\ pc = "quote_call"
    /\ DeliverQuoted(_extract_quote_with_error_handling(logs, hasSession, task_number, tier1))
    /\ partial' = None
    /\ quoteIn' = Some([task_number |-> task_number, tier1 |-> tier1,
                        source_text |-> partial[1].top_doc.page_content])
    /\ UNCHANGED <<variant, hasSession, req, worker, result, timedOut, turn, prev, rcall, ucall, chat, boot, locks, logw, ss, disk>>

\* The steps of the thread that called get_response, once the call is made.
CallerStep ==
    \/ Timeout
    \/ \E io_ok \in BOOLEAN : ExecutorExit(io_ok)
    \/ \E io_ok \in BOOLEAN : FutureRaised(io_ok)
    \/ \E io1, io2 \in BOOLEAN : FutureReturned(io1, io2)
    \/ \E t \in TaskNumbers, tier1 \in Tier1Outcomes : ExtractQuote(t, tier1)

Next ==
    \/ \E g \in Groups, io_ok \in BOOLEAN : ChainCreationFails(g, io_ok)
    \/ \E g \in Groups : Submit(g)
    \/ \E r \in {[answer |-> a, context |-> c] : a \in {NoAnswerText, PromptRefusal, AnsNoCitation, AnsCites9, AnsCites6}, c \in {<<>>, <<Doc6, Doc20>>}} : WorkerReturns(r)
    \/ \E k \in ErrorKinds, d \in 0..BackoffCap : WorkerFails(k, d)
    \/ WorkerHangs
    \/ Timeout
    \/ \E io_ok \in BOOLEAN : ExecutorExit(io_ok)
    \/ \E io_ok \in BOOLEAN : FutureRaised(io_ok)
    \/ \E io1, io2 \in BOOLEAN : FutureReturned(io1, io2)
    \/ \E t \in TaskNumbers, tier1 \in Tier1Outcomes : ExtractQuote(t, tier1)

Spec == Init /\ [][Next]_vars

(***************************************************************************)
(* _call_llm_with_retry observed alone, with the sleeps it takes.           *)
(***************************************************************************)

\* The wrapper is called.
RetryCall ==
    /\ rcall.state = "idle"
    /\ rcall' = FreshCall
    /\ UNCHANGED <<pipeVars, ucall, chat, boot, locks, logw, ss, disk>>

\* The wrapped callable returns.
RetryReturns ==
    /\ rcall.state = "running"
    /\ rcall' = _call_llm_with_retry(variant, rcall, "ok", 0)
    /\ UNCHANGED <<pipeVars, ucall, chat, boot, locks, logw, ss, disk>>

\* The wrapped callable raises.
RetryFails(kind, d) ==
    /\ rcall.state = "running"
    /\ d \in wait_times(variant, rcall.attempts + 1)
    /\ rcall' = _call_llm_with_retry(variant, rcall, kind, d)
    /\ UNCHANGED <<pipeVars, ucall, chat, boot, locks, logw, ss, disk>>

RetryNext ==
    \/ RetryCall
    \/ RetryReturns
    \/ \E k \in ErrorKinds, d \in 0..BackoffCap : RetryFails(k, d)

RetryInit ==
    /\ Init
    /\ rcall = IdleCall

RetrySpec == RetryInit /\ [][RetryNext]_vars

(***************************************************************************)
(* _smart_document_selection and _fix_hallucinated_citation observed alone. *)
(***************************************************************************)

\* Step 7: _smart_document_selection is applied.
SelectDocument(answer, retrieved_docs) ==
    /\ ucall.fn = "none"
    /\ ucall' = [fn |-> "select", answer |-> answer, docs |-> retrieved_docs,
                 out |-> _smart_document_selection(answer, retrieved_docs)]
    /\ UNCHANGED <<pipeVars, rcall, chat, boot, locks, logw, ss, disk>>

\* Step 9: _fix_hallucinated_citation is applied to an answer and a selected document.
FixCitation(answer, doc) ==
    /\ ucall.fn = "none"
    /\ ucall' = [fn |-> "fix", answer |-> answer, doc |-> doc, again |-> None,
                 out |-> _fix_hallucinated_citation(answer, doc.metadata.legal_reference,
                                                    doc.page_content)]
    /\ UNCHANGED <<pipeVars, rcall, chat, boot, locks, logw, ss, disk>>

\* _fix_hallucinated_citation is applied to its own output, for the same document.
FixCitationAgain ==
    /\ ucall.fn = "fix"
    /\ ucall.again = None
    /\ ucall' = [ucall EXCEPT !.again =
                    Some(_fix_hallucinated_citation(ucall.out.answer,
                                                    ucall.doc.metadata.legal_reference,
                                                    ucall.doc.page_content))]
    /\ UNCHANGED <<pipeVars, rcall, chat, boot, locks, logw, ss, disk>>

UnitNext ==
    \/ \E a \in UnitAnswers, ds \in {<<d>> : d \in UnitDocs}
                                     \cup {ds \in {<<d, e>> : d, e \in UnitDocs} : ds[1] # ds[2]} : SelectDocument(a, ds)
    \/ \E a \in UnitAnswers, d \in UnitDocs : FixCitation(a, d)
    \/ FixCitationAgain

UnitSpec == Init /\ [][UnitNext]_vars

(***************************************************************************)
(* RAGPipeline.__init__ and _load_retriever (rag_pipeline.py 54-183).       *)
(***************************************************************************)
MinKeyLen == 20        \* len(self.openai_api_key) < 20
LoadRetries == 3       \* max_retries = 3

\* The error type STEP 1 logs for a secret, "none" for a key it accepts.
key_failure(secret) ==
    IF secret.read = "KeyError" THEN "missing_openai_api_key"
    ELSE IF secret.read = "error" THEN "api_key_load_error"
    ELSE IF secret.len = 0 \/ secret.len < MinKeyLen THEN "invalid_api_key_format"
    ELSE IF ~secret.sk THEN "invalid_api_key_format"
    ELSE "none"

\* The record goes to logs/critical_errors.log, or to the console when the
\* file cannot be written.
_log_critical_error(b, error_type, io_ok) ==
    [b EXCEPT !.critical = Append(@, [type |-> error_type,
                                      to |-> IF io_ok THEN "file" ELSE "console"])]

\* A stop that lets __init__ go on.
st_stop_returns(b) == b

\* st.stop(): the script run ends here, __init__ does not return.
st_stop(b) == [b EXCEPT !.stage = "stopped"]

\* STEP 3 of __init__ once _load_retriever returned None.
no_retriever(b) == st_stop([b EXCEPT !.stage = "constructed", !.retriever = FALSE])

\* build_and_save_index, had it removed the old index only once the new one
\* was ready to be saved.
build_and_save_index_removing_late(d, found, embedded) ==
    IF ~found THEN [d EXCEPT !.build = "no_documents"]
    ELSE IF ~embedded THEN [d EXCEPT !.build = "embedding_failed"]
    ELSE [index |-> "new", build |-> "completed"]

\* build_and_save_index: shutil.rmtree of the existing index comes first.
build_and_save_index(d, found, embedded) ==
    IF ~found THEN [index |-> "none", build |-> "no_documents"]
    ELSE IF ~embedded THEN [index |-> "none", build |-> "embedding_failed"]
    ELSE [index |-> "new", build |-> "completed"]

\* The path test of _load_retriever.
check_path(b, exists, io_ok) ==
    IF exists THEN b
    ELSE no_retriever(_log_critical_error(b, "faiss_index_missing", io_ok))

\* A load that gives up after its first failed attempt.
load_attempt_once(b, ok, io_ok) ==
    IF ok
    THEN [b EXCEPT !.stage = "constructed", !.retriever = TRUE, !.attempts = @ + 1]
    ELSE no_retriever(_log_critical_error(
                          [b EXCEPT !.attempts = @ + 1, !.failures = @ + 1],
                          "faiss_load_failed", io_ok))

\* One pass of `for attempt in range(max_retries)`, b.attempts being `attempt`.
load_attempt(b, ok, io_ok) ==
    IF ok
    THEN [b EXCEPT !.stage = "constructed", !.retriever = TRUE, !.attempts = @ + 1]
    ELSE IF b.attempts < LoadRetries - 1
         THEN [b EXCEPT !.attempts = @ + 1, !.failures = @ + 1,
                        !.delays = Append(@, Pow2(b.attempts))]
         ELSE no_retriever(_log_critical_error(
                               [b EXCEPT !.attempts = @ + 1, !.failures = @ + 1],
                               "faiss_load_failed", io_ok))

\* STEP 1 of __init__.
ValidateKey(secret, io_ok) ==
    /\ boot.stage = "validate_key"
    /\ boot' = IF key_failure(secret) = "none"
               THEN [boot EXCEPT !.stage = "init_llm", !.secret = Some(secret)]
               ELSE st_stop(_log_critical_error(
                        [boot EXCEPT !.stage = "init_llm", !.secret = Some(secret)],
                        key_failure(secret), io_ok))
    /\ UNCHANGED <<pipeVars, rcall, ucall, chat, locks, logw, ss, disk>>

\* STEP 2 of __init__.
InitLLM(ok, io_ok) ==
    /\ boot.stage = "init_llm"
    /\ boot' = IF ok THEN [boot EXCEPT !.stage = "check_path", !.llm = Some(ok)]
               ELSE st_stop(_log_critical_error(
                        [boot EXCEPT !.stage = "check_path", !.llm = Some(ok)],
                        "llm_initialization_failed", io_ok))
    /\ UNCHANGED <<pipeVars, rcall, ucall, chat, locks, logw, ss, disk>>

\* create_index.py, run before the app starts. load_and_enrich_documents ends
\* the script with SystemExit(1) when it found no document, and
\* FAISS.from_documents raises when the embedding fails; save_local is
\* reached only after both.
BuildIndex(found, embedded) ==
    /\ boot.stage = "validate_key"
    /\ disk.build = "none"
    /\ disk' = build_and_save_index(disk, found, embedded)
    /\ UNCHANGED <<pipeVars, rcall, ucall, chat, boot, locks, logw, ss>>

CheckIndexPath(io_ok) ==
    /\ boot.stage = "check_path"
    /\ boot' = check_path([boot EXCEPT !.stage = "load", !.index = Some(disk.index # "none")],
                          disk.index # "none", io_ok)
    /\ UNCHANGED <<pipeVars, rcall, ucall, chat, locks, logw, ss, disk>>

LoadAttempt(ok, io_ok) ==
    /\ boot.stage = "load"
    /\ boot' = load_attempt(boot, ok, io_ok)
    /\ UNCHANGED <<pipeVars, rcall, ucall, chat, locks, logw, ss, disk>>

\* load_rag_pipeline returned the pipeline (app.py 86) and get_response is
\* called on it (task_renderer.py 296-300).
ServeRequest ==
    /\ boot.stage = "constructed"
    /\ ~boot.served
    /\ boot' = [boot EXCEPT !.served = TRUE]
    /\ UNCHANGED <<pipeVars, rcall, ucall, chat, locks, logw, ss, disk>>

LoadNext ==
    \/ \E secret \in {[read |-> "KeyError"], [read |-> "error"]}
                      \cup {k \in [read : {"ok"}, len : {0, 19, 20, 51}, sk : BOOLEAN] : k.sk => k.len >= 3}, io_ok \in BOOLEAN : ValidateKey(secret, io_ok)
    \/ \E ok \in BOOLEAN, io_ok \in BOOLEAN : InitLLM(ok, io_ok)
    \/ \E found \in BOOLEAN, embedded \in BOOLEAN : BuildIndex(found, embedded)
    \/ \E io_ok \in BOOLEAN : CheckIndexPath(io_ok)
    \/ \E ok \in BOOLEAN, io_ok \in BOOLEAN : LoadAttempt(ok, io_ok)
    \/ ServeRequest

\* __init__ begins: nothing is validated or loaded yet.
LoadInit == InitWith(NewBoot)

LoadSpec == LoadInit /\ [][LoadNext]_vars

(***************************************************************************)
(* The chat history of a task: handle_user_input (task_renderer.py 253-334) *)
(* and STEP 1 of get_response (rag_pipeline.py 293-324).                    *)
(***************************************************************************)
MaxHistory == 6        \* questions asked in one task
HistoryWindow == 4     \* chat_history[-4:]

\* not any(keyword in turn['answer'].lower() for keyword in no_answer_phrases)
is_useful(t) == \A keyword \in no_answer_phrases : ~IsSubstr(keyword, Lower(t.answer))

\* over chat_history[-4:]
useful_history(chat_history) ==
    SelectSeq(SubSeq(chat_history,
                     Len(chat_history) - Min(Len(chat_history), HistoryWindow) + 1,
                     Len(chat_history)), is_useful)

\* The query sent to the chain: the current question, and before it the turns
\* of useful_history as "Vorherige Frage / Vorherige Antwort" lines; without
\* such turns the bare query.
contextualized_query(query, chat_history) ==
    [query |-> query, history |-> useful_history(chat_history)]

\* handle_user_input: the n-th question of the task is asked, get_response
\* builds its context from the history and returns r, and the turn is appended
\* to the history.
AskQuestion(r) ==
    /\ Len(chat.history) < MaxHistory
    /\ chat' = [history |-> Append(chat.history,
                                   [query |-> Len(chat.history) + 1, answer |-> r.answer]),
                flags |-> Append(chat.flags, r.no_answer),
                sent |-> Some(contextualized_query(Len(chat.history) + 1, chat.history))]
    /\ UNCHANGED <<pipeVars, rcall, ucall, boot, locks, logw, ss, disk>>

ChatNext == \E r \in {response_for(AnsCites6, Doc6, None),
                      response_for(PromptRefusal, Doc6, None),
                      no_answer_response,
                      _create_error_response(MsgTimeout, TRUE)} : AskQuestion(r)

ChatSpec == Init /\ [][ChatNext]_vars

(***************************************************************************)
(* file_lock_context (utils.py 67-125).  locks.files are the lock files     *)
(* that exist, locks.stale the lock files a failed cleanup left behind, and *)
(* locks.at[s] is where session s stands in file_lock_context: "acquire"    *)
(* before os.open, "sleeping" in time.sleep(0.01), "in_block" at the yield, *)
(* "closing" before os.close, "removing" before os.remove, "out" outside,   *)
(* with the way the last call ended in `exit` and whether the call has      *)
(* waited for the lock in `slept`.  Each action is one system call or one   *)
(* step of one session; the sessions interleave freely.                     *)
(***************************************************************************)
\* The CSV files the sessions write under the lock (utils.py 54-57).
LogPaths == {"logs/tasks.csv", "logs/interactions.csv"}

\* lock_file = f"{filepath}.lock" (utils.py 97)
lock_file(filepath) == filepath \o ".lock"

\* os.open without O_EXCL: an existing lock file is opened, not refused.
os_open_without_excl(files, name, os_ok) ==
    IF ~os_ok THEN "OSError" ELSE "opened"

\* os.open(lock_file, O_CREAT | O_EXCL | O_RDWR) (utils.py 105): the file is
\* created only if it does not exist; os_ok is whether the directory lets it.
os_open(files, name, os_ok) ==
    IF name \in files THEN "FileExistsError"
    ELSE IF ~os_ok THEN "OSError" ELSE "opened"

at_lock(l, s, pc_, exit_) == [l EXCEPT !.at[s].pc = pc_, !.at[s].exit = exit_]

\* One pass of the while loop (utils.py 102-114).  timed_out is whether
\* time.time() - start_time > timeout when the lock file exists.
try_acquire(l, s, os_ok, timed_out) ==
    LET name == lock_file(l.at[s].path[1])
        got == os_open(l.files, name, os_ok)
    IN IF got = "opened"
       THEN [at_lock(l, s, "in_block", "none") EXCEPT !.files = @ \cup {name}]
       ELSE IF got = "FileExistsError"
       THEN IF timed_out THEN at_lock(l, s, "out", "TimeoutError")
            ELSE at_lock(l, s, "sleeping", "none")
       ELSE at_lock(l, s, "out", "OSError")

\* os.close(lock_fd) in the finally block (utils.py 121); a failure skips
\* os.remove and is swallowed (utils.py 123-124).
close_lock(l, s, os_ok) ==
    IF os_ok THEN [l EXCEPT !.at[s].pc = "removing"]
    ELSE [[l EXCEPT !.at[s].pc = "out"]
             EXCEPT !.stale = @ \cup {lock_file(l.at[s].path[1])}]

\* os.remove(lock_file) (utils.py 122); a failure is swallowed (123-124).
remove_lock(l, s, os_ok) ==
    IF os_ok
    THEN [[l EXCEPT !.at[s].pc = "out"] EXCEPT !.files = @ \ {lock_file(l.at[s].path[1])}]
    ELSE [[l EXCEPT !.at[s].pc = "out"]
             EXCEPT !.stale = @ \cup {lock_file(l.at[s].path[1])}]

\* Session s enters `with file_lock_context(filepath)`.
EnterLockContext(s, filepath) ==
    /\ locks.at[s].pc = "out"
    /\ locks' = [locks EXCEPT !.at[s] = [pc |-> "acquire", path |-> Some(filepath),
                                         exit |-> "none", slept |-> FALSE]]
    /\ UNCHANGED <<pipeVars, rcall, ucall, chat, boot, logw, ss, disk>>

\* Session s calls os.open in the loop.
TryAcquire(s, os_ok, timed_out) ==
    /\ locks.at[s].pc = "acquire"
    /\ locks' = try_acquire(locks, s, os_ok, timed_out)
    /\ UNCHANGED <<pipeVars, rcall, ucall, chat, boot, logw, ss, disk>>

\* time.sleep(0.01) of session s ends (utils.py 114).
WakeUp(s) ==
    /\ locks.at[s].pc = "sleeping"
    /\ locks' = [at_lock(locks, s, "acquire", "none") EXCEPT !.at[s].slept = TRUE]
    /\ UNCHANGED <<pipeVars, rcall, ucall, chat, boot, logw, ss, disk>>

\* The block under the lock ends, normally or with an exception, and the
\* finally block begins (utils.py 116-120).
LeaveBlock(s, how) ==
    /\ locks.at[s].pc = "in_block"
    /\ locks' = at_lock(locks, s, "closing", how)
    /\ UNCHANGED <<pipeVars, rcall, ucall, chat, boot, logw, ss, disk>>

CloseLock(s, os_ok) ==
    /\ locks.at[s].pc = "closing"
    /\ locks' = close_lock(locks, s, os_ok)
    /\ UNCHANGED <<pipeVars, rcall, ucall, chat, boot, logw, ss, disk>>

RemoveLock(s, os_ok) ==
    /\ locks.at[s].pc = "removing"
    /\ locks' = remove_lock(locks, s, os_ok)
    /\ UNCHANGED <<pipeVars, rcall, ucall, chat, boot, logw, ss, disk>>

LockNext ==
    \/ \E s \in Sessions, filepath \in LogPaths : EnterLockContext(s, filepath)
    \/ \E s \in Sessions, os_ok \in BOOLEAN, timed_out \in BOOLEAN :
           TryAcquire(s, os_ok, timed_out)
    \/ \E s \in Sessions : WakeUp(s)
    \/ \E s \in Sessions, how \in {"normal", "exception"} : LeaveBlock(s, how)
    \/ \E s \in Sessions, os_ok \in BOOLEAN : CloseLock(s, os_ok)
    \/ \E s \in Sessions, os_ok \in BOOLEAN : RemoveLock(s, os_ok)

LockSpec == Init /\ [][LockNext]_vars

(***************************************************************************)
(* The logging functions of utils.py: log_participant_info, log_task_data, *)
(* log_interaction and log_post_survey share one retry loop.               *)
(***************************************************************************)

LogRetries == 4        \* max_retries = 4

\* The fallback after the last failed attempt. new_entry is a local that
\* only the body of the `with` block binds: subscripting it while unbound
\* raises NameError, which `except Exception as fallback_error` catches as
\* it catches a failed write of the error file (err_ok false).
write_to_error_file(w, err_ok) ==
    [w EXCEPT !.error_rows = IF w.new_entry /\ err_ok THEN @ + 1 ELSE @,
              !.system = IF w.new_entry /\ err_ok THEN "data_saved_to_error_file"
                         ELSE "error_file_write_also_failed",
              !.error_file_ok = err_ok,
              !.end = IF w.fn \in {"log_task_data", "log_post_survey"}
                      THEN "halted" ELSE "continued"]

\* A caller enters one of the logging functions.
CallLog(fn) ==
    /\ logw = None
    /\ logw' = [fn |-> fn, attempt |-> 0, new_entry |-> FALSE, rows |-> 0, error_rows |-> 0,
                causes |-> <<>>, system |-> "none", error_file_ok |-> TRUE, end |-> "none"]
    /\ UNCHANGED <<pipeVars, rcall, ucall, chat, boot, locks, ss, disk>>

\* One pass of `for attempt in range(max_retries)`, logw.attempt being
\* `attempt`; the last failed pass goes on to the error file.
WriteAttempt(outcome, err_ok) ==
    /\ logw # None
    /\ logw.end = "none"
    /\ logw' =
         IF outcome = "ok"
         THEN [logw EXCEPT !.new_entry = TRUE, !.rows = @ + 1,
                           !.causes = Append(@, outcome), !.end = "returned"]
         ELSE IF logw.attempt < LogRetries - 1
         THEN [logw EXCEPT !.new_entry = @ \/ outcome # "lock_timeout",
                           !.rows = IF outcome = "verify_failed" THEN @ + 1 ELSE @,
                           !.causes = Append(@, outcome), !.attempt = @ + 1]
         ELSE write_to_error_file(
                  [logw EXCEPT !.new_entry = @ \/ outcome # "lock_timeout",
                               !.rows = IF outcome = "verify_failed" THEN @ + 1 ELSE @,
                               !.causes = Append(@, outcome)], err_ok)
    /\ UNCHANGED <<pipeVars, rcall, ucall, chat, boot, locks, ss, disk>>

LogNext ==
    \/ \E fn \in {"log_participant_info", "log_task_data", "log_interaction", "log_post_survey"} : CallLog(fn)
    \/ \E outcome \in {"lock_timeout", "append_failed", "verify_failed", "ok"}, err_ok \in BOOLEAN : WriteAttempt(outcome, err_ok)

LogSpec == Init /\ [][LogNext]_vars

(***************************************************************************)
(* app.py, task_renderer.py and behavioral_tracking.py: st.session_state   *)
(* of one participant and the script runs that the participant's clicks    *)
(* and inputs start. A timestamp is kept as "is set"; whether a dwell time *)
(* reaches its threshold is an input of the run that measures it.          *)
(***************************************************************************)

MaxQuestions == 2      \* questions asked per task
MaxClicks == 2         \* clicks on the quote toggle and the source button per task

\* A text typed into st.chat_input: n characters, the first and the last of
\* them no whitespace, between l leading and r trailing blanks. Every full
\* hundred of the n characters is one atom.
ChatInput(l, n, r) ==
    [i \in 1..l |-> " "]
    \o [i \in 1..(n \div 100) |-> "Kann ich die Kosten Kann ich die Kosten Kann ich die Kosten Kann ich die Kosten Kann ich die Kosten?"]
    \o [i \in 1..(n % 100) |-> "a"] \o [i \in 1..r |-> " "]

\* The start of a script run: what the run's renders log and which way the
\* source dialog was closed since the last render are recorded anew.
new_run(s) ==
    [s EXCEPT !.incorrect = FALSE, !.closing = IF s.dismissed THEN "dismissed" ELSE "none",
              !.dismissed = FALSE, !.user_input = None, !.query = None]

\* update_last_action_time, had it not marked the reading time as recorded.
update_last_action_time_unmarked(s) ==
    IF s.last_answer_time /\ ~s.answer_reading_recorded
    THEN [s EXCEPT !.answer_reading_times = @ + 1]
    ELSE s

update_last_action_time(s) ==
    IF s.last_answer_time /\ ~s.answer_reading_recorded
    THEN [s EXCEPT !.answer_reading_times = @ + 1, !.answer_reading_recorded = TRUE]
    ELSE s

\* finalize_open_quotes, had it left the quote_visible_* key in place.
finalize_open_quotes_keeping(s, long) ==
    IF s.quote_visible
    THEN [s EXCEPT !.expander_clicks_verification = IF long THEN @ + 1 ELSE @]
    ELSE s

\* Only the quote of the last message has a toggle, and every new question
\* closes the open one: at most one quote_visible_* key is true.
finalize_open_quotes(s, long) ==
    IF s.quote_visible
    THEN [s EXCEPT !.quote_visible = FALSE,
                   !.expander_clicks_verification = IF long THEN @ + 1 ELSE @]
    ELSE s

track_quote_toggle(s, is_opening, long) ==
    IF is_opening
    THEN [s EXCEPT !.quote_visible = TRUE, !.expander_clicks_total = @ + 1,
                   !.last_expander_click_time = TRUE]
    ELSE [s EXCEPT !.quote_visible = FALSE,
                   !.expander_clicks_verification = IF s.quote_visible /\ long THEN @ + 1 ELSE @]

finalize_modal_tracking(s, long) ==
    IF s.modal_opened_time
    THEN [update_last_action_time(
              [s EXCEPT !.modal_clicks_verification = IF long THEN @ + 1 ELSE @])
          EXCEPT !.modal_doc = FALSE, !.modal_opened_time = FALSE]
    ELSE s

track_modal_button_click(s) ==
    [s EXCEPT !.modal_clicks_total = @ + 1,
              !.expander_then_modal_escalations = IF s.last_expander_click_time THEN @ + 1 ELSE @,
              !.last_expander_click_time = FALSE]

finalize_modal_if_open(s, long) ==
    IF s.modal_opened_time /\ s.modal_doc
    THEN [s EXCEPT !.modal_clicks_verification = IF long THEN @ + 1 ELSE @,
                   !.modal_doc = FALSE, !.modal_opened_time = FALSE]
    ELSE s

\* _validate_user_input without its minimum length.
_validate_user_input_without_minimum(user_query) ==
    IF CharLen(Strip(user_query)) = 0 \/ CharLen(Strip(user_query)) > 500
    THEN [is_valid |-> FALSE, sanitized_query |-> <<>>]
    ELSE [is_valid |-> TRUE, sanitized_query |-> Strip(user_query)]

_validate_user_input(user_query) ==
    IF CharLen(Strip(user_query)) = 0 THEN [is_valid |-> FALSE, sanitized_query |-> <<>>]
    ELSE IF CharLen(Strip(user_query)) < 3 THEN [is_valid |-> FALSE, sanitized_query |-> <<>>]
    ELSE IF CharLen(Strip(user_query)) > 500 THEN [is_valid |-> FALSE, sanitized_query |-> <<>>]
    ELSE [is_valid |-> TRUE, sanitized_query |-> Strip(user_query)]

\* handle_user_input, had it appended the assistant message only for an
\* answer.
handle_user_input_dropping_errors(s, user_input, no_answer, long) ==
    IF ~_validate_user_input(user_input).is_valid THEN s
    ELSE [update_last_action_time(finalize_open_quotes(s, long))
          EXCEPT !.question_count = @ + 1,
                 !.followup_count = IF s.question_count = 0 THEN @ ELSE @ + 1,
                 !.messages = IF no_answer THEN Append(@, [role |-> "user"])
                              ELSE @ \o <<[role |-> "user"],
                                          [role |-> "assistant", no_answer |-> no_answer]>>,
                 !.query = Some(_validate_user_input(user_input).sanitized_query),
                 !.last_answer_time = TRUE, !.answer_reading_recorded = FALSE,
                 !.history[s.current_history_key] = @ + 1]

\* no_answer is the flag of the response get_response returned: false for an
\* answer, true for the no-answer response and for both error responses.
handle_user_input(s, user_input, no_answer, long) ==
    IF ~_validate_user_input(user_input).is_valid THEN s
    ELSE [update_last_action_time(finalize_open_quotes(s, long))
          EXCEPT !.question_count = @ + 1,
                 !.followup_count = IF s.question_count = 0 THEN @ ELSE @ + 1,
                 !.messages = @ \o <<[role |-> "user"],
                                     [role |-> "assistant", no_answer |-> no_answer]>>,
                 !.query = Some(_validate_user_input(user_input).sanitized_query),
                 !.last_answer_time = TRUE, !.answer_reading_recorded = FALSE,
                 !.history[s.current_history_key] = @ + 1]

\* render_message_list draws the buttons under the last message only, and
\* only if it is an assistant message with a context that is no no-answer.
has_buttons(s) ==
    /\ s.messages # <<>>
    /\ s.messages[Len(s.messages)].role = "assistant"
    /\ ~s.messages[Len(s.messages)].no_answer

validate_and_redirect(s) ==
    CASE s.current_step = "instructions" /\ ~s.consent_completed ->
             [s EXCEPT !.current_step = "consent"]
      [] s.current_step = "pre_study_survey" /\ ~s.instructions_completed ->
             [s EXCEPT !.current_step = "instructions"]
      [] s.current_step = "task_chat" /\ ~s.pre_study_completed ->
             [s EXCEPT !.current_step = "pre_study_survey"]
      [] /\ s.current_step = "task_chat" /\ s.pre_study_completed
         /\ s.task_number > 1 /\ ~s.task_completed[s.task_number - 1] ->
             [s EXCEPT !.task_number = @ - 1]
      [] s.current_step = "task_post" /\ s.messages = <<>> ->
             [s EXCEPT !.current_step = "task_chat"]
      [] s.current_step = "poststudysurvey_page1" /\ \E i \in 1..4 : ~s.task_completed[i] ->
             [s EXCEPT !.current_step = "task_chat",
                       !.task_number = CHOOSE i \in 1..4 :
                           ~s.task_completed[i] /\ \A j \in 1..(i - 1) : s.task_completed[j]]
      [] s.current_step = "poststudysurvey_page2" /\ ~s.postsurvey_completed[1] ->
             [s EXCEPT !.current_step = "poststudysurvey_page1"]
      [] /\ s.current_step = "poststudysurvey_page3"
         /\ (~s.postsurvey_completed[1] \/ ~s.postsurvey_completed[2]) ->
             [s EXCEPT !.current_step = "poststudysurvey_page1"]
      [] s.current_step = "debriefing" /\ ~s.postsurvey_completed[3] ->
             [s EXCEPT !.current_step = "poststudysurvey_page1"]
      [] OTHER -> s

\* render_chat down to the task header. In its first branch
\* finalize_modal_if_open finds modal_doc unset and does nothing.
render_chat(s) ==
    [s EXCEPT !.incorrect = @ \/ (s.modal_was_open /\ ~s.modal_doc),
              !.modal_was_open = IF s.modal_doc THEN TRUE ELSE FALSE,
              !.modal_opened_time = IF s.modal_was_open /\ ~s.modal_doc THEN FALSE ELSE @,
              !.task_start_time = TRUE,
              !.question_count = IF s.task_start_time THEN @ ELSE 0,
              !.expander_clicks_total = IF s.task_start_time THEN @ ELSE 0,
              !.modal_clicks_total = IF s.task_start_time THEN @ ELSE 0,
              !.followup_count = IF s.task_start_time THEN @ ELSE 0,
              !.current_history_key = IF s.task_start_time THEN @ ELSE s.task_number,
              !.page = "task_chat"]

RECURSIVE script_run(_)
\* One run of app.py in which no widget fires: validate_and_redirect, then
\* the page of current_step. st.rerun() starts the next run at once.
script_run(s) ==
    IF validate_and_redirect(s) # s THEN script_run(validate_and_redirect(s))
    ELSE IF s.current_step = "task_chat" /\ s.task_completed[s.task_number]
    THEN script_run(IF s.task_number < 4 THEN [s EXCEPT !.task_number = @ + 1]
                    ELSE [s EXCEPT !.current_step = "poststudysurvey_page1"])
    ELSE IF s.current_step = "task_chat" THEN render_chat(s)
    ELSE [s EXCEPT !.page = s.current_step]

\* The "Weiter" branch of render_task_post that marks the task with the
\* number it has after the increment.
render_task_post_marking_next(s, long, logged) ==
    IF ~logged THEN finalize_open_quotes(s, long)
    ELSE IF s.task_number < 4
    THEN [finalize_open_quotes(s, long) EXCEPT !.task_completed[s.task_number + 1] = TRUE, !.task_number = @ + 1,
                   !.messages = <<>>, !.task_start_time = FALSE, !.question_count = 0,
                   !.expander_clicks_total = 0, !.modal_clicks_total = 0,
                   !.followup_count = 0, !.modal_opened_time = FALSE,
                   !.last_answer_time = FALSE, !.answer_reading_times = 0,
                   !.expander_clicks_verification = 0, !.modal_clicks_verification = 0,
                   !.expander_then_modal_escalations = 0,
                   !.last_expander_click_time = FALSE, !.quote_visible = FALSE,
                   !.current_step = "task_chat"]
    ELSE [finalize_open_quotes(s, long) EXCEPT !.task_completed[s.task_number] = TRUE,
                                               !.current_step = "poststudysurvey_page1"]

\* The "Weiter" branch of render_task_post. log_task_data ends the run with
\* st.stop() when it could not write the row (logged false); the page stays
\* on the screen.
render_task_post(s, long, logged) ==
    IF ~logged THEN finalize_open_quotes(s, long)
    ELSE IF s.task_number < 4
    THEN [finalize_open_quotes(s, long) EXCEPT !.task_completed[s.task_number] = TRUE, !.task_number = @ + 1,
                   !.messages = <<>>, !.task_start_time = FALSE, !.question_count = 0,
                   !.expander_clicks_total = 0, !.modal_clicks_total = 0,
                   !.followup_count = 0, !.modal_opened_time = FALSE,
                   !.last_answer_time = FALSE, !.answer_reading_times = 0,
                   !.expander_clicks_verification = 0, !.modal_clicks_verification = 0,
                   !.expander_then_modal_escalations = 0,
                   !.last_expander_click_time = FALSE, !.quote_visible = FALSE,
                   !.current_step = "task_chat"]
    ELSE [finalize_open_quotes(s, long) EXCEPT !.task_completed[s.task_number] = TRUE,
                                               !.current_step = "poststudysurvey_page1"]

\* The "Weiter" branch of render_survey on the page shown. The call of the
\* logging function returns (logged) or ends the run where it stands, by
\* st.stop() or by an exception; the page stays on the screen.
render_survey(s, logged) ==
    CASE s.page = "pre_study_survey" ->
             IF logged THEN [s EXCEPT !.current_step = "task_chat", !.pre_study_completed = TRUE]
             ELSE s
      [] s.page = "poststudysurvey_page1" ->
             [s EXCEPT !.postsurvey_completed[1] = TRUE, !.current_step = "poststudysurvey_page2"]
      [] s.page = "poststudysurvey_page2" ->
             [s EXCEPT !.postsurvey_completed[2] = TRUE, !.current_step = "poststudysurvey_page3"]
      [] s.page = "poststudysurvey_page3" ->
             IF logged THEN [s EXCEPT !.postsurvey_completed[3] = TRUE, !.current_step = "debriefing"]
             ELSE [s EXCEPT !.postsurvey_completed[3] = TRUE]

\* "Ich stimme zu und möchte fortfahren" on the consent page.
Consent ==
    /\ ss.page = "consent"
    /\ ss' = script_run([new_run(ss) EXCEPT !.consent_completed = TRUE,
                                            !.current_step = "instructions"])
    /\ UNCHANGED <<pipeVars, rcall, ucall, chat, boot, locks, logw, disk>>

\* "Weiter" under the comprehension questions.
Comprehension(all_correct) ==
    /\ ss.page = "instructions"
    /\ ss' = IF all_correct
             THEN script_run([new_run(ss) EXCEPT !.instructions_completed = TRUE,
                                                 !.current_step = "pre_study_survey"])
             ELSE new_run(ss)
    /\ UNCHANGED <<pipeVars, rcall, ucall, chat, boot, locks, logw, disk>>

\* "Weiter" under a survey whose items were all answered.
SubmitSurvey(logged) ==
    /\ ss.page \in {"pre_study_survey", "poststudysurvey_page1", "poststudysurvey_page2",
                    "poststudysurvey_page3"}
    /\ ss' = IF logged THEN script_run(render_survey(new_run(ss), logged))
             ELSE render_survey(new_run(ss), logged)
    /\ UNCHANGED <<pipeVars, rcall, ucall, chat, boot, locks, logw, disk>>

\* The quote toggle under the last answer.
ToggleQuote(long) ==
    /\ ss.page = "task_chat" /\ ~ss.dialog /\ has_buttons(ss)
    /\ ss.quote_visible \/ ss.expander_clicks_total + ss.modal_clicks_total < MaxClicks
    /\ ss' = script_run(update_last_action_time(
                 track_quote_toggle(script_run(new_run(ss)), ~ss.quote_visible, long)))
    /\ UNCHANGED <<pipeVars, rcall, ucall, chat, boot, locks, logw, disk>>

\* "Gesetzestext anzeigen": the run ends with the dialog of show_source_modal
\* on the screen.
OpenModal(long) ==
    /\ ss.page = "task_chat" /\ ~ss.dialog /\ has_buttons(ss)
    /\ ss.expander_clicks_total + ss.modal_clicks_total < MaxClicks
    /\ ss' = [update_last_action_time(track_modal_button_click(
                  finalize_open_quotes(script_run(new_run(ss)), long)))
              EXCEPT !.modal_doc = TRUE, !.modal_opened_time = TRUE, !.dialog = TRUE]
    /\ UNCHANGED <<pipeVars, rcall, ucall, chat, boot, locks, logw, disk>>

\* "Schließen" in the dialog: the dialog function runs alone as a fragment
\* and ends in st.rerun().
CloseModal(long) ==
    /\ ss.dialog
    /\ ss' = script_run([update_last_action_time(finalize_modal_tracking(new_run(ss), long))
                         EXCEPT !.dialog = FALSE, !.closing = "button"])
    /\ UNCHANGED <<pipeVars, rcall, ucall, chat, boot, locks, logw, disk>>

\* ESC, the X or a click outside the dialog: the browser removes the dialog
\* and no script runs.
DismissModal ==
    /\ ss.dialog
    /\ ss' = [ss EXCEPT !.dialog = FALSE, !.dismissed = TRUE, !.incorrect = FALSE,
                        !.closing = "none", !.user_input = None, !.query = None]
    /\ UNCHANGED <<pipeVars, rcall, ucall, chat, boot, locks, logw, disk>>

\* A text sent from st.chat_input.
SendChatInput(user_input, no_answer, long) ==
    /\ ss.page = "task_chat" /\ ~ss.dialog
    /\ ss.question_count < MaxQuestions
    /\ ss' = script_run([handle_user_input(script_run(new_run(ss)), user_input, no_answer, long)
                         EXCEPT !.user_input = Some(user_input)])
    /\ UNCHANGED <<pipeVars, rcall, ucall, chat, boot, locks, logw, disk>>

\* "Ich möchte die Frage beantworten."
FinishChat(long) ==
    /\ ss.page = "task_chat" /\ ~ss.dialog /\ ss.messages # <<>>
    /\ ss' = script_run([update_last_action_time(finalize_modal_if_open(
                             finalize_open_quotes(script_run(new_run(ss)), long), long))
                         EXCEPT !.current_step = "task_post"])
    /\ UNCHANGED <<pipeVars, rcall, ucall, chat, boot, locks, logw, disk>>

\* "Weiter" on the answer page of a task, with an answer chosen.
SubmitTaskPost(long, logged) ==
    /\ ss.page = "task_post"
    /\ ss' = IF logged THEN script_run(render_task_post(new_run(ss), long, logged))
             ELSE render_task_post(new_run(ss), long, logged)
    /\ UNCHANGED <<pipeVars, rcall, ucall, chat, boot, locks, logw, disk>>

AppNext ==
    \/ Consent
    \/ \E all_correct \in BOOLEAN : Comprehension(all_correct)
    \/ \E logged \in BOOLEAN : SubmitSurvey(logged)
    \/ \E long \in BOOLEAN : ToggleQuote(long)
    \/ \E long \in BOOLEAN : OpenModal(long)
    \/ \E long \in BOOLEAN : CloseModal(long)
    \/ DismissModal
    \/ \E l \in {0, 1}, n \in {0, 2, 3, 500, 501} :
           \E no_answer, long \in IF n \in {3, 500} THEN BOOLEAN ELSE {FALSE} :
               SendChatInput(ChatInput(l, n, 2 * l), no_answer, long)
    \/ \E long \in BOOLEAN : FinishChat(long)
    \/ \E long, logged \in BOOLEAN : SubmitTaskPost(long, logged)

\* In AppNext a rejected text reaches neither the pipeline nor the tracking,
\* so the response flag and the reading time vary for accepted texts only.
\* One participant; the variant of the retry wrapper plays no part here.
AppInit == Init /\ variant = "tenacity" /\ hasSession

AppSpec == AppInit /\ [][AppNext]_vars

(***************************************************************************)
(* Properties of get_response and _call_llm_with_retry.                     *)
(***************************************************************************)
\* The worker of the current call ended by raising, and get_response returned
\* from `except Exception`.
InvocationFailed == pc = "returned" /\ ~timedOut /\ worker.state = "raised"

\* The worker of the current call returned in time, and get_response returned.
InvocationAnswered == pc = "returned" /\ ~timedOut /\ worker.state = "returned"

\* C1: a worker that never returns does not block the caller of get_response:
\* once the 45-second timeout has fired on a hung worker, get_response has
\* returned a response or the calling thread can still take a step.
C1_HungWorkerDoesNotBlock ==
    (timedOut /\ worker.state = "hung") => (pc = "returned" \/ ENABLED CallerStep)

\* C2: when the timeout fires before the worker finishes, what get_response
\* returns is the timeout error response (error, recoverable, "shorter
\* question" message); steps 4-11 never run on a result the worker produces
\* afterwards, and the call returns as soon as the worker has ended.
C2_TimeoutResponse ==
    /\ (timedOut /\ pc = "returned") =>
           response = Some(_create_error_response(MsgTimeout, TRUE))
    /\ timedOut => (pc \in {"shutdown_wait", "returned"} /\ partial = None)
    /\ (pc = "shutdown_wait" /\ worker.state \in {"returned", "raised"}) =>
           ENABLED (\E io_ok \in BOOLEAN : ExecutorExit(io_ok))

\* The timeout fired, the worker then produced an answer with documents, and
\* get_response returned.
C2_Witness ==
    /\ timedOut /\ pc = "returned"
    /\ worker.state = "returned" /\ result # None /\ result[1].context # <<>>
    /\ result[1].answer = AnsCites9

\* The keys every response dictionary has.
ResponseKeys == {"answer", "context", "quote", "legal_reference", "no_answer"}

\* C3: no exception leaves get_response: whatever fails (chain construction,
\* the worker with any error kind, the timeout, the writes of the error log,
\* the Tier-1 quote call), the call ends with a response dictionary.
C3_NoExceptionEscapes ==
    /\ pc # "raised"
    /\ pc = "returned" => (response # None /\ ResponseKeys \subseteq DOMAIN response[1])

\* An error response was returned although the error log could not be written.
C3_Witness ==
    /\ pc = "returned" /\ response # None /\ Get(response[1], "error", FALSE)
    /\ logs.rag_calls # <<>> /\ logs.rag_file = <<>>

NonDecreasing(s) == \A i \in 1..(Len(s) - 1) : s[i] <= s[i + 1]

\* C4 as stated: the wrapper makes at most 5 attempts, and the delays between
\* successive attempts are non-decreasing and never above the 60-second cap, in
\* both variants.
C4_DelaysNonDecreasing ==
    /\ rcall.attempts <= MaxAttempts
    /\ NonDecreasing(rcall.delays)
    /\ \A i \in DOMAIN rcall.delays : rcall.delays[i] <= BackoffCap

\* C4 as amended: the wrapper makes at most 5 attempts; the delay after the
\* k-th failed attempt is at most min(2^(k-1), 60) seconds, a bound that is
\* non-decreasing and capped; the delays themselves are non-decreasing in the
\* manual variant.
C4_DelaysBounded ==
    /\ rcall.attempts <= MaxAttempts
    /\ \A i \in DOMAIN rcall.delays : rcall.delays[i] <= Min(Pow2(i - 1), BackoffCap)
    /\ variant = "manual" => NonDecreasing(rcall.delays)

\* Every attempt failed with a retried error kind until the wrapper gave up.
C4_Witness ==
    /\ rcall.state = "raised" /\ rcall.attempts = MaxAttempts
    /\ Len(rcall.delays) = MaxAttempts - 1
    /\ is_retryable(variant, rcall.err)

\* The rate-limit, upstream-API, timeout and connection errors.
UpstreamKinds == {k \in ErrorKinds : "APIError" \in Bases(k)}

\* C5: the wrapper retries only after rate-limit, upstream-API, timeout or
\* connection errors: an attempt that fails with another kind is the last one,
\* the error is raised and no wait follows it (so such a call is attempted once).
C5_OtherKindsNotRetried ==
    (rcall.err \notin (UpstreamKinds \cup {"none"})) =>
        (rcall.state = "raised" /\ Len(rcall.delays) = rcall.attempts - 1)

\* A call failed with a ValueError: one attempt, no wait, raised.
C5_Witness ==
    /\ rcall.err = "ValueError" /\ rcall.state = "raised"
    /\ rcall.attempts = 1 /\ rcall.delays = <<>>

\* C6: when the worker exhausts its retries on a rate limit, a connection error
\* or an upstream timeout, get_response returns the recoverable error response
\* with the "busy" message, for each of the three kinds.
C6_ExhaustedTransientIsBusy ==
    (/\ InvocationFailed
     /\ worker.attempts = MaxAttempts
     /\ worker.err \in {"RateLimitError", "APIConnectionError", "APITimeoutError"}) =>
        response = Some(_create_error_response(MsgBusy, TRUE))

\* What steps 4-9 make of a worker's result, the logs left aside.
Steps4to9(r) == select_and_repair(EmptyLogs, hasSession, r, TRUE, TRUE)

\* The response agrees with steps 4-11 applied to the worker's result alone.
ProcessedNormally(resp, r) ==
    /\ resp.no_answer = Steps4to9(r).no_answer
    /\ resp.no_answer => resp = no_answer_response
    /\ ~resp.no_answer =>
           /\ resp.answer = Steps4to9(r).answer
           /\ resp.context = <<Steps4to9(r).top_doc>>
           /\ resp.error = FALSE

\* C7: when the worker fails with an error the wrapper does not retry,
\* get_response returns the error response with recoverable false and the
\* "rephrase" message; the pipeline then takes the next call, and that call's
\* response is the one its own result determines.
C7_NonRetryableOnlyThisTurn ==
    /\ (InvocationFailed /\ ~is_retryable(variant, worker.err)) =>
           response = Some(_create_error_response(MsgRephrase, FALSE))
    /\ (pc = "returned" /\ Ended = "nonrecoverable_error" /\ turn < MaxTurns) =>
           ENABLED (\E g \in Groups : Submit(g))
    /\ (prev = "nonrecoverable_error" /\ pc = "wait_result" /\ worker.attempts = 0) =>
           (worker = FreshCall /\ logs = EmptyLogs /\ result = None /\ ~timedOut)
    /\ (prev = "nonrecoverable_error" /\ InvocationAnswered) =>
           ProcessedNormally(response[1], result[1])

\* The call after a non-recoverable error returned a normal answer.
C7_Witness ==
    /\ prev = "nonrecoverable_error" /\ InvocationAnswered
    /\ ~response[1].no_answer

\* C8: when every attempt of the worker fails with a rate-limit error, the
\* failure is logged once per attempt: some log of the turn (rag_errors.log,
\* the interaction log, or both together) holds as many records as attempts
\* were made.  Stated for the turns whose error log could be written.
C8_LoggedOncePerAttempt ==
    (/\ InvocationFailed /\ worker.err = "RateLimitError" /\ worker.attempts = MaxAttempts
     /\ logs.rag_file # <<>>) =>
        \/ Len(logs.rag_file) = worker.attempts
        \/ Len(logs.interactions) = worker.attempts
        \/ Len(logs.rag_file) + Len(logs.interactions) = worker.attempts

\* C9: in every response get_response returns, no_answer true means that the
\* context is empty and the quote is null.
C9_NoAnswerHasNoChunkNoQuote ==
    (pc = "returned" /\ response # None /\ response[1].no_answer) =>
        (response[1].context = <<>> /\ response[1].quote = None)

\* A no-answer response was returned although documents had been retrieved.
C9_Witness ==
    /\ InvocationAnswered /\ response # None /\ response[1].no_answer
    /\ result[1].context # <<>>

\* C10: when the generated answer is the refusal sentence of UNIVERSAL_PROMPT,
\* get_response returns the normal no-answer response, also when documents
\* were retrieved.
C10_PromptRefusalIsNoAnswer ==
    (InvocationAnswered /\ result[1].answer = PromptRefusal) =>
        response = Some(no_answer_response)

\* The worker's result is in and holds no retrieved document.
ZeroCandidates ==
    /\ pc = "wait_result" /\ worker.state = "returned"
    /\ result # None /\ result[1].context = <<>>

\* C11: when the retriever returned zero candidates, the step get_response
\* takes on the result returns no_answer true with empty context and null
\* quote and no error flag, leaves the worker as it is (the generator is not
\* invoked again), and runs neither document selection, citation repair (no
\* diagnostic is logged) nor quote extraction (the call is over at once).
C11_ZeroCandidatesIsNoAnswer ==
    [][(ZeroCandidates /\ pc' # pc) =>
          /\ pc' = "returned"
          /\ response' # None
          /\ response'[1].no_answer /\ response'[1].context = <<>>
          /\ response'[1].quote = None /\ ~Get(response'[1], "error", FALSE)
          /\ worker' = worker /\ logs' = logs /\ partial' = None]_vars

\* A call returned on a result with a citing answer and no document.
C11_Witness ==
    /\ InvocationAnswered /\ result[1].context = <<>> /\ result[1].answer = AnsCites9
    /\ response # None /\ response[1].no_answer /\ logs = EmptyLogs

\* C12: quote extraction never raises and never returns an empty string,
\* whatever the Tier-1 call yields (accepted text, rejected text, exception)
\* and whatever the task number is: the step of get_response that extracts the
\* quote always returns a response that is not an error response and carries a
\* non-empty quote.
C12_QuoteNeverEmptyNeverRaises ==
    [][pc = "quote_call" =>
          /\ pc' = "returned"
          /\ response' # None
          /\ response'[1].quote # None
          /\ CharLen(response'[1].quote[1]) > 0
          /\ response'[1].error = FALSE /\ ~response'[1].no_answer]_vars

\* The Tier-1 call raised and no fallback quote is registered: with a session,
\* only that path returns the generic message and logs nothing.
C12_Witness ==
    /\ pc = "returned" /\ response # None /\ hasSession
    /\ response[1].quote = Some(GenericQuoteMessage)
    /\ logs.interactions = <<>>

\* The Tier-1 call returned a text of at least 50 characters that holds none of
\* the failure phrases.
Tier1Accepted(t1) ==
    /\ t1.raised = "none"
    /\ CharLen(Strip(t1.content)) >= 50
    /\ \A kw \in failure_keywords : ~IsSubstr(Lower(kw), Lower(Strip(t1.content)))

\* A fallback quote is registered for the task number.
Registered(task_number) == task_number # None /\ task_number[1] \in 1..4

\* The quote q is what the tiers, tried in order, give for the inputs.
TiersInOrder(q, task_number, t1) ==
    /\ Tier1Accepted(t1) <=> (t1.raised = "none" /\ q = Strip(t1.content))
    /\ (~Tier1Accepted(t1) /\ Registered(task_number)) => q = FALLBACK_QUOTES[task_number[1]]
    /\ (q = GenericQuoteMessage) <=> (~Tier1Accepted(t1) /\ ~Registered(task_number))

\* C13: the quote tiers are tried strictly in order: the Tier-1 text is the
\* quote exactly when it has at least 50 characters and no failure phrase;
\* otherwise (also when Tier 1 raised) the quote is the registered fallback
\* quote of the task when there is one; and it is the generic message exactly
\* when Tier 1 failed and no fallback quote is registered.
C13_TiersInOrder ==
    (pc = "returned" /\ quoteIn # None) =>
        (/\ response # None /\ response[1].quote # None
         /\ TiersInOrder(response[1].quote[1], quoteIn[1].task_number, quoteIn[1].tier1))

\* Tier 1 returned a long text with a failure phrase for a registered task:
\* the quote is that task's fallback quote.
C13_Witness ==
    /\ pc = "returned" /\ quoteIn # None
    /\ quoteIn[1].tier1 = [raised |-> "none", content |-> QuoteNotFound]
    /\ quoteIn[1].task_number = Some(2)
    /\ response[1].quote = Some(FallbackQuote2)

\* The event types with which quote extraction logs that a fallback tier was used.
QuoteFallbackEvents ==
    {"quote_fallback_hardcoded"}
    \cup {"quote_fallback_exception_fallback_" \o k : k \in ErrorKinds}

\* The number of "fallback tier used" records among the logged interactions.
QuoteFallbackRecords(l) ==
    Cardinality({i \in DOMAIN l.interactions : l.interactions[i] \in QuoteFallbackEvents})

\* C14: a "fallback tier used" record is written by quote extraction exactly
\* when the registered Tier-2 quote is what is returned: one record on both
\* paths that return it (rejected text, exception), none when Tier 1 succeeds
\* or the Tier-3 generic message is returned.  Stated for the turns that have
\* a session to log for.
C14_FallbackLoggedIffTier2 ==
    (pc = "returned" /\ quoteIn # None /\ hasSession) =>
        QuoteFallbackRecords(logs) =
            IF ~Tier1Accepted(quoteIn[1].tier1) /\ Registered(quoteIn[1].task_number)
            THEN 1 ELSE 0

\* C15: quote extraction is gated by the group: for a group other than
\* "Augmented" get_response never reaches the Tier-1 call and every response
\* has a null quote; for "Augmented" every response that is not a no-answer
\* response comes from step 10 and carries a quote.
C15_QuoteGatedByGroup ==
    /\ req.group # "Augmented" => (pc # "quote_call" /\ quoteIn = None)
    /\ (pc = "returned" /\ response # None /\ req.group # "Augmented") =>
           response[1].quote = None
    /\ (pc = "returned" /\ response # None /\ req.group = "Augmented"
            /\ ~response[1].no_answer) =>
           (quoteIn # None /\ response[1].quote # None)

\* A full answer was returned to the "Minimal" group, without a quote.
C15_Witness ==
    /\ InvocationAnswered /\ req.group = "Minimal"
    /\ response # None /\ ~response[1].no_answer /\ response[1].quote = None


\* C40: in every response that is no no-answer response, context holds
\* exactly one chunk, the chunk is one of the candidates retrieved for this
\* query, legal_reference is the reference of that chunk, and the citation
\* repair and the quote extraction were given the text of that chunk.
C40_ContextIsSelectedCandidate ==
    (pc = "returned" /\ ~response[1].no_answer) =>
        /\ Len(response[1].context) = 1
        /\ \E i \in DOMAIN result[1].context : result[1].context[i] = response[1].context[1]
        /\ response[1].legal_reference
               = Some(response[1].context[1].metadata.legal_reference)
        /\ response[1].answer
               = _fix_hallucinated_citation(result[1].answer,
                                            response[1].context[1].metadata.legal_reference,
                                            response[1].context[1].page_content).answer
        /\ quoteIn # None => quoteIn[1].source_text = response[1].context[1].page_content

\* An answer whose citation was repaired against the second-ranked
\* candidate, returned with a quote.
C40_Witness ==
    /\ pc = "returned" /\ ~response[1].no_answer /\ quoteIn # None
    /\ Len(result[1].context) = 2
    /\ response[1].context = <<result[1].context[2]>>
    /\ response[1].answer # result[1].answer

(***************************************************************************)
(* Properties of _smart_document_selection and _fix_hallucinated_citation.  *)
(***************************************************************************)
\* The section number of a candidate: the number after the sign in its reference.
SectionOf(doc) == CorrectPara(doc.metadata.legal_reference)

\* The candidates whose section number is `number`.
ExactCandidates(number, docs) == {i \in DOMAIN docs : SectionOf(docs[i]) = Some(number)}

ExactMatchWins(numbers, docs, out) ==
    /\ ExactCandidates(numbers[1], docs) # {} =>
           out = [doc |-> docs[Least(ExactCandidates(numbers[1], docs))], log |-> None]
    /\ out.log = None => \E k \in DOMAIN numbers : SectionOf(out.doc) = Some(numbers[k])

\* C16: when the first extracted number is the section number of a candidate,
\* the first such candidate is selected and no diagnostic is recorded, also
\* when a higher-ranked candidate holds the number as a subsection marker; and
\* a candidate selected without a diagnostic has one of the extracted numbers
\* as its section number (a number inside a longer section number, as 5 in
\* 35a, selects nothing).
C16_ExactMatchWins ==
    (ucall.fn = "select" /\ FindSectionNumbers(ucall.answer) # <<>>) =>
        ExactMatchWins(FindSectionNumbers(ucall.answer), ucall.docs, ucall.out)

\* "(number)" stands at the start of a line of the text.
MarkerAtLineStart(number, text) ==
    \E i \in 1..Len(text) :
        /\ i = 1 \/ text[i - 1] = "\n"
        /\ LitAt(text, i, <<"(">> \o number \o <<")">>)

\* The subsection-confusion rule as stated: marker at a line start and enough overlap.
ConfusionCase(answer, number, doc) ==
    /\ MarkerAtLineStart(number, doc.page_content)
    /\ enough_overlap(Keywords(answer), Keywords(doc.page_content))

SelectedAsConfusion(out) == out.log = Some("absatz_paragraph_confusion_fixed")

ConfusionExactly(answer, numbers, docs, out) ==
    /\ SelectedAsConfusion(out) =>
           \E k \in DOMAIN numbers : ConfusionCase(answer, numbers[k], out.doc)
    /\ (/\ numbers # <<>>
        /\ \A i \in DOMAIN docs : selection_rule(answer, numbers[1], docs[i]) # "exact"
        /\ \E i \in DOMAIN docs : ConfusionCase(answer, numbers[1], docs[i])) =>
           SelectedAsConfusion(out)

\* C17: a candidate is selected as a "subsection mistaken for section" case
\* exactly when an extracted number stands as a subsection marker at the start
\* of a line of its text and the overlap of content words is at least 3 words
\* or 20% of the answer's: a selection with that diagnostic implies both, and
\* a first number that matches no reference but meets both for some candidate
\* gives that diagnostic.
C17_ConfusionNeedsLineStartMarker ==
    ucall.fn = "select" =>
        ConfusionExactly(ucall.answer, FindSectionNumbers(ucall.answer), ucall.docs, ucall.out)

\* `number` resolves `doc` by the exact-match or the subsection-confusion rule.
Resolves(answer, number, doc) ==
    SectionOf(doc) = Some(number) \/ ConfusionCase(answer, number, doc)

DefaultsToTopRanked(answer, numbers, docs, out) ==
    /\ numbers = <<>> => out = [doc |-> docs[1], log |-> None]
    /\ (/\ numbers # <<>>
        /\ \A k \in DOMAIN numbers, i \in DOMAIN docs : ~Resolves(answer, numbers[k], docs[i])) =>
           out = [doc |-> docs[1], log |-> Some("unclear_document_selection")]

\* C18: the top-ranked candidate is returned when the answer holds no section
\* number (without a diagnostic) and when no extracted number resolves a
\* candidate by the exact-match or the subsection-confusion rule (with the one
\* "unclear selection" diagnostic).
C18_DefaultsToTopRanked ==
    ucall.fn = "select" =>
        DefaultsToTopRanked(ucall.answer, FindSectionNumbers(ucall.answer), ucall.docs, ucall.out)

\* C19: citation repair is idempotent: applied to its own output, with the
\* same legal reference and source text, it returns that output unchanged.
C19_RepairIdempotent ==
    (ucall.fn = "fix" /\ ucall.again # None) => ucall.again[1].answer = ucall.out.answer

\* The first citation of the answer names another section than the document.
WrongSectionCited(answer, doc) ==
    /\ SectionOf(doc) # <<>>
    /\ CitationSearch(answer) # <<>>
    /\ CitationSearch(answer)[1].cited_para # SectionOf(doc)[1]

\* The answer with the atoms [from, to) replaced by new, the rest as it was.
RewrittenAt(answer, from, to, new) ==
    SubSeq(answer, 1, from - 1) \o new \o SubSeq(answer, to, Len(answer))

IsMarkerIn(number, text) == IsSubstr(<<"(">> \o number \o <<")">>, text)

\* The rewrite as stated: "§{correct section} Abs. {cited number}" in place of
\* the whole citation, or in place of its sign and number alone.
RewrittenAsStated(answer, m, correct, out) ==
    \/ out = RewrittenAt(answer, m.from, m.to,
                         <<"§">> \o correct \o <<" ", "Abs", ".", " ">> \o m.cited_para)
    \/ out = RewrittenAt(answer, m.from, SectionAt(answer, m.from)[2],
                         <<"§">> \o correct \o <<" ", "Abs", ".", " ">> \o m.cited_para)

RightSectionWithAbs(answer, doc) ==
    /\ SectionOf(doc) # <<>>
    /\ CitationSearch(answer) # <<>>
    /\ CitationSearch(answer)[1].cited_para = SectionOf(doc)[1]
    /\ CitationSearch(answer)[1].cited_abs # None

\* The cited subsection number N is at least 5 and "N. " begins a line of the
\* text of subsection 1.
IsListItemOfAbsatz1(m, text) ==
    ToInt(m.cited_abs[1]) >= 5 /\ nummer_in(Absatz1Text(text), m.cited_abs[1])

\* "§{section} Abs. 1 Nr. N"
AbsOneNr(m) ==
    <<"§">> \o m.cited_para \o <<" ", "Abs", ".", " ", "1", " ", "Nr", ".", " ">> \o m.cited_abs[1]

\* Where "Abs. N" of the citation ends (exclusive).
CitedAbsEnd(answer, m) ==
    Digits1(answer, KeywordDigits(answer, SectionAt(answer, m.from)[2], <<"Abs", ".">>))

\* The rewrite as stated: "§{section} Abs. 1 Nr. N" in place of the whole
\* citation, or in place of its "§{section} Abs. N" alone.
RewrittenToNrAsStated(answer, m, out) ==
    \/ out = RewrittenAt(answer, m.from, m.to, AbsOneNr(m))
    \/ out = RewrittenAt(answer, m.from, CitedAbsEnd(answer, m), AbsOneNr(m))

AlreadyCorrect(answer, doc) ==
    /\ SectionOf(doc) # <<>>
    /\ CitationSearch(answer) # <<>>
    /\ CitationSearch(answer)[1].cited_para = SectionOf(doc)[1]
    /\ \/ CitationSearch(answer)[1].cited_abs = None
       \/ MarkerAtLineStart(CitationSearch(answer)[1].cited_abs[1], doc.page_content)

\* C22: a citation that is already correct is preserved: when the first
\* citation names the chunk's section and cites no subsection, or a subsection
\* that is a marker "(N)" of the chunk, the answer text is returned unchanged.
C22_CorrectCitationPreserved ==
    (ucall.fn = "fix" /\ AlreadyCorrect(ucall.answer, ucall.doc)) =>
        ucall.out.answer = ucall.answer

\* Every section number of `after` stands at the same place in `before` or is
\* the section number of the document, and `after` has no more of them.
OnlyDocumentSectionWritten(before, after, doc) ==
    /\ Len(after) <= Len(before)
    /\ \A k \in DOMAIN after : after[k] # before[k] => SectionOf(doc) = Some(after[k])

\* C23: the repair never introduces a citation into an answer that has none
\* (such an answer is returned unchanged, without a diagnostic), and a section
\* number it writes is the one parsed from the chunk's legal reference: the
\* section numbers of the result are those of the answer, place by place,
\* except where the document's own section number now stands.
C23_NoCitationFabricated ==
    ucall.fn = "fix" =>
        /\ FindSectionNumbers(ucall.answer) = <<>> =>
               ucall.out = [answer |-> ucall.answer, log |-> None]
        /\ OnlyDocumentSectionWritten(FindSectionNumbers(ucall.answer),
                                      FindSectionNumbers(ucall.out.answer), ucall.doc)

\* An answer citing §9 twice was repaired for a §20 chunk: the first citation
\* names §20, the second still §9.
C23_Witness ==
    /\ ucall.fn = "fix" /\ ucall.answer = AnsCites9Twice /\ ucall.doc = Doc20Long
    /\ FindSectionNumbers(ucall.out.answer) = << <<"2", "0">>, <<"9">> >>

\* The generator cited §9 alone and the chunk of the response is of §20, with
\* "(9)" at the start of a line and at least 3 content words of the answer.
Cites9Selected20 ==
    /\ InvocationAnswered /\ response # None /\ ~response[1].no_answer
    /\ FindSectionNumbers(result[1].answer) = << <<"9">> >>
    /\ response[1].context[1].metadata.legal_reference = Ref20
    /\ MarkerAtLineStart(<<"9">>, response[1].context[1].page_content)
    /\ Cardinality(Keywords(result[1].answer)
                   \cap Keywords(response[1].context[1].page_content)) >= 3

\* C24: when the generator cites §9 and the selected chunk is of "EStG §20"
\* with a line beginning "(9)" and at least 3 overlapping content words, the
\* response's answer cites "§20 Abs. 9 EStG" and its legal_reference_full names
\* subsection 9, the subsection written into the repaired citation.
C24_FullReferenceNamesRepairedSubsection ==
    Cites9Selected20 =>
        /\ IsSubstr(<<"§", "2", "0", " ", "Abs", ".", " ", "9", " ", "EStG">>, response[1].answer)
        /\ response[1].legal_reference_full = Some(Ref20 \o <<" ", "Abs", ".", " ", "9">>)

(***************************************************************************)
(* Properties of the construction of the pipeline.                         *)
(***************************************************************************)
\* The fatal load failure has been reported.
LoadFailureReported ==
    \E i \in DOMAIN boot.critical : boot.critical[i].type = "faiss_load_failed"

\* What C27 says apart from the delays: at most 3 attempts, the fatal failure
\* only after 3 failed ones, no attempt after a successful one, none at all
\* for a missing index path.
LoadAttemptsAsStated ==
    /\ boot.attempts <= LoadRetries
    /\ LoadFailureReported => boot.failures = LoadRetries
    /\ boot.retriever =>
           /\ boot.attempts = boot.failures + 1
           /\ ~ENABLED (\E ok \in BOOLEAN, io_ok \in BOOLEAN : LoadAttempt(ok, io_ok))
    /\ boot.index = Some(FALSE) =>
           (boot.stage = "stopped" /\ boot.attempts = 0 /\ ~boot.retriever)

KeyAcceptable(secret) == secret.read = "ok" /\ secret.len >= MinKeyLen /\ secret.sk

\* C28: construction halts when the API key is missing, shorter than 20
\* characters or does not start with "sk-", when the language model cannot be
\* initialized, and when the index is missing or fails all load attempts: no
\* later step of __init__ runs, and get_response is never executed on a
\* pipeline whose retriever is null.
C28_ConstructionHalts ==
    /\ (boot.secret # None /\ ~KeyAcceptable(boot.secret[1])) =>
           (boot.stage = "stopped" /\ boot.llm = None)
    /\ boot.llm = Some(FALSE) => (boot.stage = "stopped" /\ boot.index = None)
    /\ boot.index = Some(FALSE) => (boot.stage = "stopped" /\ boot.attempts = 0)
    /\ boot.failures = LoadRetries => boot.stage = "stopped"
    /\ boot.stage = "stopped" => (~boot.served /\ ~ENABLED LoadNext)
    /\ boot.served => boot.retriever

\* A key that is long enough but does not start with "sk-" stopped the
\* construction.
C28_Witness ==
    /\ boot.stage = "stopped" /\ boot.secret = Some([read |-> "ok", len |-> 20, sk |-> FALSE])
    /\ Len(boot.critical) = 1 /\ boot.critical[1].type = "invalid_api_key_format"

\* C39: build_and_save_index removes the persisted index before it loads the
\* documents: after a rebuild that aborted because no document was found or
\* because the embedding failed there is no index at the path, and a pipeline
\* constructed afterwards stops with the fatal faiss_index_missing error
\* without a load attempt.
C39_AbortedRebuildLeavesNoIndex ==
    [][/\ disk'.build \in {"no_documents", "embedding_failed"} => disk'.index = "none"
       /\ (/\ disk.build \in {"no_documents", "embedding_failed"}
           /\ boot.stage = "check_path" /\ boot'.stage # "check_path") =>
              /\ boot'.stage = "stopped" /\ boot'.index = Some(FALSE)
              /\ ~boot'.retriever /\ boot'.attempts = 0
              /\ boot'.critical[Len(boot'.critical)].type = "faiss_index_missing"]_vars

\* The embedding failed during a rebuild, and the construction of the
\* pipeline that followed stopped at the path test.
C39_Witness ==
    /\ disk = [index |-> "none", build |-> "embedding_failed"]
    /\ boot.stage = "stopped" /\ boot.index = Some(FALSE)
    /\ boot.critical = <<[type |-> "faiss_index_missing", to |-> "file"]>>

(***************************************************************************)
(* Properties of the chat history.                                          *)
(***************************************************************************)
\* The questions (by number) whose turns are in the context of the last call.
SentTurns == {chat.sent[1].history[i].query : i \in DOMAIN chat.sent[1].history}

\* The context holds turns of the history as they are, in their order.
InOriginalOrder(context) ==
    /\ \A i \in DOMAIN context : context[i] = chat.history[context[i].query]
    /\ \A i, j \in DOMAIN context : i < j => context[i].query < context[j].query

\* C25: the context built for a query uses only turns from the last 4 entries
\* of the history it was given, in their original order, and holds no turn
\* whose response had no_answer true (refusal, zero candidates, error).
C25_ContextExcludesNoAnswerTurns ==
    chat.sent # None =>
        /\ SentTurns \subseteq
               {n \in 1..(chat.sent[1].query - 1) : n >= chat.sent[1].query - HistoryWindow}
        /\ InOriginalOrder(chat.sent[1].history)
        /\ \A n \in SentTurns : ~chat.flags[n]

\* C26: the context sent for a new query never holds more than the two most
\* recent prior turns of the task.
C26_ContextHoldsTwoTurns ==
    chat.sent # None =>
        SentTurns \subseteq {n \in 1..(chat.sent[1].query - 1) : n >= chat.sent[1].query - 2}

(***************************************************************************)
(* Properties of step 2 of get_response.                                   *)
(***************************************************************************)
\* The current call ended in step 2: it returned without a worker, or with
\* the message of step 2, or after logging chain_creation_failed.
ChainFailedTurn ==
    /\ pc = "returned" /\ turn > 0
    /\ \/ worker = IdleCall
       \/ \E i \in DOMAIN logs.rag_calls : logs.rag_calls[i] = "chain_creation_failed"
       \/ (response # None /\ response[1].answer = MsgChainFailed)

\* C29: when the construction of the prompt or chain fails in get_response,
\* the model is not invoked in that turn (no attempt, no retry delay), the
\* failure is passed to _log_rag_error once (at most one record in
\* rag_errors.log, one interaction row with a session), and the response is
\* the error response with recoverable true.
C29_ChainFailureNotRetried ==
    ChainFailedTurn =>
        /\ worker = IdleCall /\ result = None /\ ~timedOut
        /\ logs.rag_calls = <<"chain_creation_failed">>
        /\ logs.rag_file \in {<<>>, <<"chain_creation_failed">>}
        /\ logs.interactions =
               IF hasSession THEN <<"rag_error_chain_creation_failed">> ELSE <<>>
        /\ response = Some(_create_error_response(MsgChainFailed, TRUE))

\* Step 2 failed in a turn that follows one in which the model answered, and
\* the record reached rag_errors.log.
C29_Witness ==
    /\ ChainFailedTurn /\ turn > 1 /\ prev = "answer"
    /\ logs.rag_file = <<"chain_creation_failed">>

(***************************************************************************)
(* Properties of file_lock_context.                                        *)
(***************************************************************************)
\* The sessions inside the locked block for filepath.
InBlock(filepath) ==
    {s \in Sessions : locks.at[s].pc = "in_block" /\ locks.at[s].path = Some(filepath)}

\* The sessions between their successful os.open and the end of their cleanup.
Holders(filepath) ==
    {s \in Sessions : /\ locks.at[s].pc \in {"in_block", "closing", "removing"}
                      /\ locks.at[s].path = Some(filepath)}

AllAttemptsFailed ==
    /\ logw # None
    /\ logw.end \in {"continued", "halted"}

\* C31: when all 4 write attempts of a logging function fail, the entry is
\* written to the function's *_error.csv, whatever made the attempts fail,
\* a lock that could not be acquired on any attempt included; afterwards
\* log_interaction continues while log_task_data and log_post_survey halt
\* the session.
C31_FallbackSavesEntry ==
    AllAttemptsFailed /\ logw.error_file_ok =>
        /\ logw.error_rows = 1
        /\ logw.fn = "log_interaction" => logw.end = "continued"
        /\ logw.fn \in {"log_task_data", "log_post_survey"} => logw.end = "halted"

\* C38: one call of a logging function adds at most one row to the main
\* CSV, over all of its attempts.
C38_AtMostOneRow ==
    logw # None => logw.rows <= 1

(***************************************************************************)
(* Properties of the app: workflow, chat input and behavioural tracking.   *)
(***************************************************************************)

\* C32: render_chat logs 'modal_closed_incorrect' only when the source
\* dialog was closed without its 'Schließen' button: a close with the
\* button never produces the event, and every close without the button
\* produces it in the next render of the chat.
C32_IncorrectCloseLogged ==
    /\ ss.incorrect => ss.closing = "dismissed"
    /\ ss.closing = "dismissed" => ss.incorrect

\* C33: the page shown always has its prerequisites: the chat of task n only
\* after the pre-study survey and task n-1 were completed, page 1 of the
\* post-study survey only after all four tasks, the debriefing only after
\* pages 1, 2 and 3; and a step counts as completed only by the "Weiter" of
\* its own page.
C33_WorkflowEnforced ==
    [][/\ ss'.page = "task_chat" =>
              /\ ss'.pre_study_completed
              /\ ss'.task_number > 1 => ss'.task_completed[ss'.task_number - 1]
       /\ ss'.page = "poststudysurvey_page1" => \A i \in 1..4 : ss'.task_completed[i]
       /\ ss'.page = "debriefing" => \A k \in 1..3 : ss'.postsurvey_completed[k]
       /\ ss'.pre_study_completed /\ ~ss.pre_study_completed => ss.page = "pre_study_survey"
       /\ \A i \in 1..4 : ss'.task_completed[i] /\ ~ss.task_completed[i] =>
              ss.page = "task_post" /\ ss.task_number = i
       /\ \A k \in 1..3 : ss'.postsurvey_completed[k] /\ ~ss.postsurvey_completed[k] =>
              ss.page = <<"poststudysurvey_page1", "poststudysurvey_page2",
                          "poststudysurvey_page3">>[k]]_vars

\* The participant went through the whole study and sees the debriefing.
C33_Witness ==
    /\ ss.page = "debriefing"
    /\ \A i \in 1..4 : ss.task_completed[i]

\* C34: an input that after stripping is empty, shorter than 3 or longer
\* than 500 characters is rejected and leaves the session state as the run
\* without an input leaves it; otherwise the pipeline receives the stripped
\* input, and what it receives always has 3 to 500 characters.
C34_InputValidated ==
    [][/\ ss'.user_input # None =>
              IF CharLen(Strip(ss'.user_input[1])) \in 3..500
              THEN ss'.query = Some(Strip(ss'.user_input[1]))
              ELSE ss' = [script_run(script_run(new_run(ss)))
                          EXCEPT !.user_input = ss'.user_input]
       /\ ss'.query # None =>
              /\ CharLen(ss'.query[1]) \in 3..500
              /\ ss'.query[1] = Strip(ss'.query[1])]_vars

\* After one answered question an input of 501 characters between blanks
\* was sent and rejected.
C34_Witness ==
    /\ ss.user_input = Some(ChatInput(1, 501, 2))
    /\ ss.query = None
    /\ ss.question_count = 1 /\ Len(ss.messages) = 2

\* The assistant answers of the task on the screen.
Answers == {i \in DOMAIN ss.messages : ss.messages[i].role = "assistant"}

\* C35: at most one reading time is recorded per assistant answer: the
\* reading times of a task are never more than its answers.
C35_OneReadingTimePerAnswer ==
    ss.answer_reading_times <= Cardinality(Answers)

\* Two answers, each followed by an action that recorded its reading time.
C35_Witness ==
    /\ Cardinality(Answers) = 2
    /\ ss.answer_reading_times = 2
    /\ ss.answer_reading_recorded

\* C36: after a valid input was handled, the messages hold one user and one
\* assistant entry per question of the task, the task's history holds one
\* turn per question, and the follow-up count is the question count less
\* one, whatever response the pipeline returned.
C36_CountsAgree ==
    ss.query # None =>
        /\ Len(ss.messages) = 2 * ss.question_count
        /\ \A i \in 1..ss.question_count :
               /\ ss.messages[2 * i - 1].role = "user"
               /\ ss.messages[2 * i].role = "assistant"
        /\ ss.history[ss.task_number] = ss.question_count
        /\ ss.question_count >= 1 /\ ss.followup_count = ss.question_count - 1

\* The second question of task 2 was answered with a no-answer or an error
\* response, the first with an answer.
C36_Witness ==
    /\ ss.query # None /\ ss.task_number = 2
    /\ ss.question_count = 2 /\ ss.followup_count = 1
    /\ ~ss.messages[2].no_answer /\ ss.messages[4].no_answer

\* C37: the verification counts never exceed the click totals, and the
\* escalations never exceed either click total.
C37_CountersOrdered ==
    /\ ss.expander_clicks_verification <= ss.expander_clicks_total
    /\ ss.modal_clicks_verification <= ss.modal_clicks_total
    /\ ss.expander_then_modal_escalations <= ss.expander_clicks_total
    /\ ss.expander_then_modal_escalations <= ss.modal_clicks_total

\* A quote was opened and kept open long enough, then the source dialog was
\* opened from it and closed after a long enough look.
C37_Witness ==
    /\ ss.expander_clicks_total = 1 /\ ss.expander_clicks_verification = 1
    /\ ss.modal_clicks_total = 1 /\ ss.modal_clicks_verification = 1
    /\ ss.expander_then_modal_escalations = 1

====
